---------------------------- MODULE Spec2Model ----------------------------
(***************************************************************************)
(* Model of the RDP session engine of janus:                               *)
(*   - the session registry (crates/protocols/rdp/src/session_manager.rs)  *)
(*   - the session task     (crates/protocols/rdp/src/session_task.rs)     *)
(*                                                                         *)
(* The registry operations are async functions called by any number of     *)
(* concurrent callers on a multi-threaded runtime.  Each operation is cut  *)
(* into the steps that are atomic in the code: one step per critical       *)
(* section of the registry mutex, one step per channel send, one step per  *)
(* await.  The session task is cut at its await points (connect, TLS,      *)
(* handshake, the select of the active loop, every socket write).          *)
(***************************************************************************)
EXTENDS Integers, Naturals, Sequences, FiniteSets, TLC

(***************************************************************************)
(* Bounds of the model.                                                    *)
(***************************************************************************)
MaxCalls == 2      \* send_mouse / send_key / close calls started in a run
MaxFrames == 2     \* the server stops sending once this many frames went out
NumCallers == 2    \* concurrent callers of the registry

SessionIds == {"s1"}            \* ids Uuid::new_v4 can hand out
\* ids a caller can pass: the ids handed out and one that never was
CallIds == SessionIds \cup {"s0"}
Callers == 1..NumCallers
ButtonMasks == {0, 1}           \* button masks used by the callers (bit 0)

(***************************************************************************)
(* Exit reasons, session_task.rs.                                          *)
(***************************************************************************)
ReasonTimeout == "RDP connection timed out after 10s"
ReasonTcp == "TCP connection failed"
ReasonBegin == "RDP connect_begin failed"
ReasonNoTls == "Server did not request TLS upgrade"
ReasonTls == "TLS handshake failed"
ReasonFinalize == "RDP connect_finalize failed"
ReasonRead == "RDP read error"
ReasonWrite == "RDP write error"
ReasonServerClosed == "Server closed connection"
ReasonTerminate == "Server disconnected"
ReasonDeactivate == "Server requested deactivation"
ReasonProcessing == "RDP processing error"
ReasonUser == "Session closed by user"

SetupReasons ==
    {ReasonTimeout, ReasonTcp, ReasonBegin, ReasonNoTls, ReasonTls, ReasonFinalize}

(***************************************************************************)
(* Results of the registry operations, session_manager.rs.                 *)
(***************************************************************************)
ErrUnknown == "unknown rdp session"
ErrChannelClosed == "rdp session channel closed"
ResOk == "Ok"

(***************************************************************************)
(* RdpEvent and SessionCommand, session_manager.rs / session_task.rs.      *)
(***************************************************************************)
FrameEvent(seq, key) == [type |-> "Frame", seq |-> seq, is_keyframe |-> key, reason |-> ""]
ExitEvent(reason) == [type |-> "Exit", seq |-> 0, is_keyframe |-> FALSE, reason |-> reason]

MouseEvent(buttons, prev) == [kind |-> "MouseEvent", buttons |-> buttons, prev_buttons |-> prev]
KeyEvent == [kind |-> "KeyEvent", buttons |-> 0, prev_buttons |-> 0]
CloseCmd == [kind |-> "Close", buttons |-> 0, prev_buttons |-> 0]

\* SessionHandle { cmd_tx, task_handle, last_buttons }: cmd_tx and
\* task_handle are the channel and the task of the same id.
SessionHandle(last) == [last_buttons |-> last]

\* The outputs of ActiveStage::process the loop distinguishes; "err" is a
\* PDU whose decoding fails, "other" any output matched by `_ => {}`.
AdapterOutputs == {"resp", "gfx", "term", "deact", "err", "other"}

VARIABLES
    sessions,     \* RdpSessionManager.sessions: id -> SessionHandle (partial)
    pc,           \* position of each session task
    cmd_q,        \* the command channel of each session (cmd_tx -> cmd_rx)
    events,       \* everything sent on each session's event channel
    dirty_rects,  \* is the dirty-rect set of the task non-empty
    frame_seq,    \* frame_seq of the task
    caller,       \* position and locals of each caller of the registry
    ret,          \* the call that returned last: caller, operation, id, result
    cmd_log,      \* history: every command accepted by the channel, in order
    connects,     \* history: TcpStream::connect attempts of each task
    wasActive,    \* history: the task entered the active loop
    ncalls        \* number of send_mouse/send_key/close calls started

\* The read arm of the main loop with the bytes of the socket spelled out.
VARIABLES
    rx,           \* history: every byte read from the socket since Active
    buf,          \* `buf`, the receive buffer of run_session_inner
    pdus,         \* history: every (action, frame_bytes) given to stage.process
    found         \* the last call of find_pdu_size: its argument and result

\* merge_rects and should_emit_full_frame, called on their own.
VARIABLES
    rects,              \* a dirty-rect list, as pushed by the read arm
    merged,             \* the last call of merge_rects: argument and result
    ff_rects,           \* should_emit_full_frame: rects
    desktop_width,      \* should_emit_full_frame: desktop_width
    desktop_height,     \* should_emit_full_frame: desktop_height
    threshold_percent,  \* should_emit_full_frame: threshold_percent
    ff_ret              \* the last call of should_emit_full_frame

\* The frame tick of the main loop with its locals spelled out.
VARIABLES
    tick_width,           \* `width`, the desktop width of the connection
    tick_height,          \* `height`, the desktop height of the connection
    pending_rects,        \* `dirty_rects`, as a list of rectangles
    frame_interval_idx,   \* `frame_interval_idx`
    jpeg_quality,         \* `jpeg_quality`
    over_budget_streak,   \* `over_budget_streak`
    under_budget_streak,  \* `under_budget_streak`
    keyframe_elapsed,     \* last_keyframe_time.elapsed(), in milliseconds
    tick                  \* the last frame tick: its inputs and its frame

\* encode_rect, called on its own.
VARIABLES
    image,        \* `image`, the DecodedImage the patches are cut from
    encoded       \* the last rect encoded: the arguments and the patch

\* translate_mouse, called on its own.
VARIABLES
    translated    \* the last call of translate_mouse: arguments and result

\* DbHostKeyPolicy, host_keys.rs, and the known-hosts table behind it.
VARIABLES
    known_hosts,   \* table ssh_known_hosts: (host, port) -> key, or NoKey
    by_token,      \* PendingMismatchStore.by_token: token -> mismatch
    by_host_port,  \* PendingMismatchStore.by_host_port: (host, port) -> token
    hk_call,       \* position and locals of each call in flight
    hk_ret,        \* the call that returned last: its arguments and result
    hk_calls,      \* number of calls started
    next_token     \* the tokens Uuid::new_v4 has handed out so far

\* The dirty-rect set from the graphics update to the patches of a frame.
VARIABLES
    clip_width,    \* `width`, the desktop width of the connection
    clip_height,   \* `height`, the desktop height of the connection
    clip_dirty,    \* `dirty_rects`, as a list of rectangles
    clip           \* the last step: a graphics update or a frame tick

\* The main loop with the outputs of the adapter and the transport spelled
\* out.
VARIABLES
    out_pc,       \* position of the task in the loop
    out_pdus,     \* complete PDUs in `buf` that are not split off yet
    out_npdus,    \* history: PDUs given to stage.process so far
    out_outputs,  \* `outputs`: what the `for` that is running has left
    out_nout,     \* history: outputs the adapter has returned so far
    out_made,     \* history: the ResponseFrames stage.process returned
    out_wire,     \* history: what was written to the transport, in order
    out_cmd_q,    \* the command channel
    out_ncmds,    \* history: commands taken from the channel so far
    out_events,   \* everything sent on the event channel
    out_dirty     \* is `dirty_rects` non-empty

\* The two hand-overs of the transport during the setup, byte by byte.
VARIABLES
    hs_stage,     \* where run_session_inner is: begin, finalize, active, failed
    hs_framed,    \* `framed`: the stream it wraps and its buffer
    hs_buf,       \* `buf`, the receive buffer of the active loop
    hs_read,      \* history: every byte a reader took from the transport
    hs_seen       \* history: every byte handed on as part of a PDU

\* The pace of the frame ticks, with the clocks spelled out.
VARIABLES
    pace_pc,           \* is the main loop running
    pace_idx,          \* `frame_interval_idx`
    pace_dirty,        \* is `dirty_rects` non-empty
    pace_since_tick,   \* last_frame_time.elapsed(), in ms
    pace_since_frame,  \* history: ms since the last Frame event was sent
    pace_last          \* the last turn of the loop: what it saw and did

sessionVars == <<sessions, pc, cmd_q, events, dirty_rects, frame_seq,
                 caller, ret, cmd_log, connects, wasActive, ncalls>>
framerVars == <<rx, buf, pdus, found>>
mergeVars == <<rects, merged>>
fullVars == <<ff_rects, desktop_width, desktop_height, threshold_percent, ff_ret>>
tickVars == <<tick_width, tick_height, pending_rects, frame_interval_idx, jpeg_quality,
              over_budget_streak, under_budget_streak, keyframe_elapsed, tick>>
codecVars == <<image, encoded>>
inputVars == <<translated>>
hostKeyVars == <<known_hosts, by_token, by_host_port, hk_call, hk_ret,
                 hk_calls, next_token>>
clipVars == <<clip_width, clip_height, clip_dirty, clip>>
outVars == <<out_pc, out_pdus, out_npdus, out_outputs, out_nout, out_made, out_wire,
             out_cmd_q, out_ncmds, out_events, out_dirty>>
hsVars == <<hs_stage, hs_framed, hs_buf, hs_read, hs_seen>>
paceVars == <<pace_pc, pace_idx, pace_dirty, pace_since_tick, pace_since_frame,
              pace_last>>
lateVars == <<clipVars, outVars, hsVars, paceVars>>
moreVars == <<tickVars, codecVars, inputVars, hostKeyVars, lateVars>>
unitVars == <<framerVars, mergeVars, fullVars, moreVars>>
baseVars == <<sessionVars, framerVars, mergeVars, fullVars>>
besidesTick == <<baseVars, codecVars, inputVars, hostKeyVars, lateVars>>
besidesCodec == <<baseVars, tickVars, inputVars, hostKeyVars, lateVars>>
besidesInput == <<baseVars, tickVars, codecVars, hostKeyVars, lateVars>>
besidesHostKeys == <<baseVars, tickVars, codecVars, inputVars, lateVars>>
earlyVars == <<baseVars, tickVars, codecVars, inputVars, hostKeyVars>>
besidesClip == <<earlyVars, outVars, hsVars, paceVars>>
besidesOut == <<earlyVars, clipVars, hsVars, paceVars>>
besidesHandover == <<earlyVars, clipVars, outVars, paceVars>>
besidesPace == <<earlyVars, clipVars, outVars, hsVars>>

vars == <<sessionVars, unitVars>>

taskVars == <<pc, events, dirty_rects, frame_seq, connects, wasActive>>
callerVars == <<caller, ret, ncalls>>

SetupPcs == {"connect", "begin", "tls", "finalize"}
ActivePcs == {"select", "process", "resp_write", "input_write"}

\* The state machine of section 4.7, read off the position of the task.
Lifecycle(id) ==
    IF pc[id] \in SetupPcs THEN "Connecting"
    ELSE IF pc[id] \in ActivePcs THEN "Active"
    ELSE IF pc[id] = "done" THEN "Closed"
    ELSE "None"

\* Mutant of ChannelOpen: a send to an ended task is taken as delivered.
ChannelOpen_Always(id) == TRUE

\* cmd_rx is owned by the future of run_session and dropped when it ends.
ChannelOpen(id) == pc[id] # "done"

Idle == [pc |-> "idle", id |-> "", buttons |-> 0, prev |-> 0]

\* No call of find_pdu_size, merge_rects or should_emit_full_frame yet.
NoCall == [called |-> FALSE]

FramerIdle == rx = << >> /\ buf = << >> /\ pdus = << >> /\ found = NoCall
MergeIdle == rects = << >> /\ merged = NoCall
FullIdle ==
    /\ ff_rects = << >>
    /\ desktop_width = 0
    /\ desktop_height = 0
    /\ threshold_percent = 0
    /\ ff_ret = NoCall
TickIdle ==
    /\ tick_width = 0
    /\ tick_height = 0
    /\ pending_rects = << >>
    /\ frame_interval_idx = 0
    /\ jpeg_quality = 0
    /\ over_budget_streak = 0
    /\ under_budget_streak = 0
    /\ keyframe_elapsed = 0
    /\ tick = NoCall
NoImage == [pixel_format |-> "", width |-> 0, height |-> 0, seed |-> 0]
CodecIdle == image = NoImage /\ encoded = NoCall
InputIdle == translated = NoCall

NumHkCallers == 2   \* concurrent callers of DbHostKeyPolicy
MaxHkCalls == 3     \* check_host_key / apply_pending_mismatch calls started
MaxTokens == 2      \* mismatch tokens handed out in a run

HkCallers == 1 .. NumHkCallers
\* The tokens a caller can pass: those handed out, as numbers from 1.
Tokens == 1 .. MaxTokens

\* (host, port): one host on two ports.
HostPorts == {<<"example.com", 22>>, <<"example.com", 2222>>}

\* Server keys: two of one type, and one of another type.
ServerKey(key_type, public_key) ==
    [key_type |-> key_type, public_key |-> public_key]
ServerKeys ==
    {ServerKey("ssh-ed25519", "first"), ServerKey("ssh-ed25519", "second"),
     ServerKey("ssh-rsa", "first")}

NoKey == [key_type |-> "", public_key |-> ""]
NoPending == [token |-> 0]
NoToken == 0
HkIdle == [pc |-> "idle"]
HkNoRet == [caller |-> 0]

\* DbHostKeyPolicy::new on a fresh database
HostKeysInit ==
    /\ known_hosts = [hp \in HostPorts |-> NoKey]
    /\ by_token = [t \in Tokens |-> NoPending]
    /\ by_host_port = [hp \in HostPorts |-> NoToken]
    /\ hk_call = [c \in HkCallers |-> HkIdle]
    /\ hk_ret = HkNoRet
    /\ hk_calls = 0
    /\ next_token = 0

ClipIdle ==
    /\ clip_width = 0
    /\ clip_height = 0
    /\ clip_dirty = << >>
    /\ clip = NoCall
\* The loop is entered: nothing in the buffer, nothing dirty, no command.
OutInit ==
    /\ out_pc = "select"
    /\ out_pdus = 0
    /\ out_npdus = 0
    /\ out_outputs = << >>
    /\ out_nout = 0
    /\ out_made = << >>
    /\ out_wire = << >>
    /\ out_cmd_q = << >>
    /\ out_ncmds = 0
    /\ out_events = << >>
    /\ out_dirty = FALSE

\* TokioFramed::new(tcp_stream): the framed reader starts with an empty
\* buffer on the plain socket.
Framed(stream, bytes) == [stream |-> stream, buf |-> bytes]
NoFramed == Framed("none", << >>)

HandoverInit ==
    /\ hs_stage = "begin"
    /\ hs_framed = Framed("tcp", << >>)
    /\ hs_buf = << >>
    /\ hs_read = << >>
    /\ hs_seen = << >>

\* No Frame event was sent yet.
NoFrame == -1

NoTurn == [step |-> "none", frame |-> FALSE, dirty |-> FALSE, elapsed |-> 0,
           interval |-> 0, gap |-> NoFrame]

\* The locals of the main loop when it is entered.
PaceInit ==
    /\ pace_pc = "loop"
    /\ pace_idx = 0
    /\ pace_dirty = FALSE
    /\ pace_since_tick = 0
    /\ pace_since_frame = NoFrame
    /\ pace_last = NoTurn

LateIdle == ClipIdle /\ OutInit /\ HandoverInit /\ PaceInit

MoreIdle == TickIdle /\ CodecIdle /\ InputIdle /\ HostKeysInit /\ LateIdle

Init ==
    /\ sessions = << >>
    /\ pc = [id \in SessionIds |-> "unspawned"]
    /\ cmd_q = [id \in SessionIds |-> << >>]
    /\ events = [id \in SessionIds |-> << >>]
    /\ dirty_rects = [id \in SessionIds |-> FALSE]
    /\ frame_seq = [id \in SessionIds |-> 0]
    /\ caller = [c \in Callers |-> Idle]
    /\ ret = [caller |-> 0, op |-> "", id |-> "", res |-> ""]
    /\ cmd_log = [id \in SessionIds |-> << >>]
    /\ connects = [id \in SessionIds |-> 0]
    /\ wasActive = [id \in SessionIds |-> FALSE]
    /\ ncalls = 0
    /\ FramerIdle
    /\ MergeIdle
    /\ FullIdle
    /\ MoreIdle


(***************************************************************************)
(* The session task: run_session / run_session_inner, session_task.rs.     *)
(***************************************************************************)

\* The task ends, having sent evs: the future of run_session completes and
\* drops cmd_rx (with whatever is still queued) and all its locals.
Finish(id, evs) ==
    /\ pc' = [pc EXCEPT ![id] = "done"]
    /\ events' = [events EXCEPT ![id] = @ \o evs]
    /\ cmd_q' = [cmd_q EXCEPT ![id] = << >>]
    /\ dirty_rects' = [dirty_rects EXCEPT ![id] = FALSE]
    /\ UNCHANGED frame_seq

\* Mutant of ExitStop: the Exit is sent but the `return` is missing, the
\* loop goes back to the select.
ExitStop_NoReturn(id, reason) ==
    /\ pc' = [pc EXCEPT ![id] = "select"]
    /\ events' = [events EXCEPT ![id] = Append(@, ExitEvent(reason))]
    /\ UNCHANGED <<cmd_q, dirty_rects, frame_seq>>

\* `let _ = event_tx.send(RdpEvent::Exit { reason }); return Ok(());`
ExitStop(id, reason) == Finish(id, <<ExitEvent(reason)>>)

\* Mutant of RunSessionErr: the error is reported and the task connects again.
RunSessionErr_Retry(id, reason) ==
    /\ pc' = [pc EXCEPT ![id] = "connect"]
    /\ events' = [events EXCEPT ![id] = Append(@, ExitEvent(reason))]
    /\ dirty_rects' = [dirty_rects EXCEPT ![id] = FALSE]
    /\ UNCHANGED <<cmd_q, frame_seq>>

\* run_session_inner returns Err(e) (a `?`): run_session sends Exit once.
RunSessionErr(id, reason) == Finish(id, <<ExitEvent(reason)>>)

\* `tracing::debug!("RDP write error on input"); return Ok(());`
InputWriteFailed(id) == Finish(id, << >>)

\* Mutant of NextSeq: the sequence number is not advanced.
NextSeq_Stuck(s) == s

\* frame_seq.saturating_add(1); the u64 never saturates within any run.
NextSeq(s) == s + 1

\* 1. TCP connect with a 10 s timeout.
TcpConnect(id) ==
    /\ pc[id] = "connect"
    /\ connects' = [connects EXCEPT ![id] = @ + 1]
    /\ \E outcome \in {"ok", "timeout", "refused"} :
         IF outcome = "ok"
         THEN /\ pc' = [pc EXCEPT ![id] = "begin"]
              /\ UNCHANGED <<events, cmd_q, dirty_rects, frame_seq>>
         ELSE RunSessionErr(id, IF outcome = "timeout" THEN ReasonTimeout ELSE ReasonTcp)
    /\ UNCHANGED <<sessions, wasActive, cmd_log, callerVars>>
    /\ UNCHANGED unitVars

\* Mutant of ConnectBegin: without a TLS request of the server the setup goes
\* on to connect_finalize on the plain socket.
ConnectBegin_Plaintext(id) ==
    /\ pc[id] = "begin"
    /\ \E outcome \in {"upgrade", "failed", "no_upgrade"} :
         IF outcome = "failed"
         THEN RunSessionErr(id, ReasonBegin)
         ELSE /\ pc' = [pc EXCEPT ![id] = IF outcome = "upgrade" THEN "tls"
                                           ELSE "finalize"]
              /\ UNCHANGED <<events, cmd_q, dirty_rects, frame_seq>>
    /\ UNCHANGED <<sessions, wasActive, connects, cmd_log, callerVars>>
    /\ UNCHANGED unitVars

\* 3./4. connect_begin, then the check that the server asked for TLS.
ConnectBegin(id) ==
    /\ pc[id] = "begin"
    /\ \E outcome \in {"upgrade", "failed", "no_upgrade"} :
         IF outcome = "upgrade"
         THEN /\ pc' = [pc EXCEPT ![id] = "tls"]
              /\ UNCHANGED <<events, cmd_q, dirty_rects, frame_seq>>
         ELSE RunSessionErr(id, IF outcome = "failed" THEN ReasonBegin ELSE ReasonNoTls)
    /\ UNCHANGED <<sessions, wasActive, connects, cmd_log, callerVars>>
    /\ UNCHANGED unitVars

\* 4. crate::tls::upgrade.
TlsUpgrade(id) ==
    /\ pc[id] = "tls"
    /\ \E ok \in BOOLEAN :
         IF ok
         THEN /\ pc' = [pc EXCEPT ![id] = "finalize"]
              /\ UNCHANGED <<events, cmd_q, dirty_rects, frame_seq>>
         ELSE RunSessionErr(id, ReasonTls)
    /\ UNCHANGED <<sessions, wasActive, connects, cmd_log, callerVars>>
    /\ UNCHANGED unitVars

\* 5./6. connect_finalize; on success the locals of the active loop are set
\* up (frame_seq = 0, no dirty rects) and the loop is entered.
ConnectFinalize(id) ==
    /\ pc[id] = "finalize"
    /\ \E ok \in BOOLEAN :
         IF ok
         THEN /\ pc' = [pc EXCEPT ![id] = "select"]
              /\ wasActive' = [wasActive EXCEPT ![id] = TRUE]
              /\ frame_seq' = [frame_seq EXCEPT ![id] = 0]
              /\ dirty_rects' = [dirty_rects EXCEPT ![id] = FALSE]
              /\ UNCHANGED <<events, cmd_q>>
         ELSE /\ RunSessionErr(id, ReasonFinalize)
              /\ UNCHANGED wasActive
    /\ UNCHANGED <<sessions, connects, cmd_log, callerVars>>
    /\ UNCHANGED unitVars

\* select!, branch `rd.read_buf(&mut buf)`: a read error, end of stream, or
\* n > 0 bytes, which are then cut into PDUs and handed to the adapter.
SocketRead(id) ==
    /\ pc[id] = "select"
    /\ \E outcome \in {"error", "eof", "bytes"} :
         CASE outcome = "error" -> RunSessionErr(id, ReasonRead)
           [] outcome = "eof" -> ExitStop(id, ReasonServerClosed)
           [] outcome = "bytes" ->
                /\ frame_seq[id] < MaxFrames
                /\ pc' = [pc EXCEPT ![id] = "process"]
                /\ UNCHANGED <<events, cmd_q, dirty_rects, frame_seq>>
    /\ UNCHANGED <<sessions, wasActive, connects, cmd_log, callerVars>>
    /\ UNCHANGED unitVars

\* The `while let Some(..) = find_pdu_size(&buf)` / `for output in outputs`
\* of the read branch, one adapter output per step: the next output of the
\* PDUs that are in the buffer is any of AdapterOutputs.
ProcessOutput(id) ==
    /\ pc[id] = "process"
    /\ \E output \in AdapterOutputs :
       CASE output = "resp" ->
              /\ pc' = [pc EXCEPT ![id] = "resp_write"]
              /\ UNCHANGED <<events, cmd_q, dirty_rects, frame_seq>>
         [] output = "gfx" ->
              \* rect_from_inclusive gives Some(rect), pushed, or None
              /\ \E some \in BOOLEAN :
                   dirty_rects' = [dirty_rects EXCEPT ![id] = @ \/ some]
              /\ UNCHANGED <<pc, events, cmd_q, frame_seq>>
         [] output = "term" -> ExitStop(id, ReasonTerminate)
         [] output = "deact" -> ExitStop(id, ReasonDeactivate)
         [] output = "err" -> ExitStop(id, ReasonProcessing)
         [] output = "other" ->
              UNCHANGED <<pc, events, cmd_q, dirty_rects, frame_seq>>
    /\ UNCHANGED <<sessions, wasActive, connects, cmd_log, callerVars>>
    /\ UNCHANGED unitVars

\* `wr.write_all(&bytes).await?; wr.flush().await?` of a ResponseFrame.
RespWrite(id) ==
    /\ pc[id] = "resp_write"
    /\ \E ok \in BOOLEAN :
         IF ok
         THEN /\ pc' = [pc EXCEPT ![id] = "process"]
              /\ UNCHANGED <<events, cmd_q, dirty_rects, frame_seq>>
         ELSE RunSessionErr(id, ReasonWrite)
    /\ UNCHANGED <<sessions, wasActive, connects, cmd_log, callerVars>>
    /\ UNCHANGED unitVars

\* The frame tick that ends the read branch once no complete PDU is left
\* (lines 237-345): it runs when there are dirty rects and the frame
\* interval has elapsed; a tick whose encodes all fail keeps the rects, any
\* other tick emits a frame.
FrameTick(id) ==
    /\ pc[id] = "process"
    /\ \E elapsed \in BOOLEAN, patches_empty \in BOOLEAN, is_keyframe \in BOOLEAN :
         IF dirty_rects[id] /\ elapsed /\ ~patches_empty
         THEN /\ events' = [events EXCEPT ![id] =
                               Append(@, FrameEvent(frame_seq[id], is_keyframe))]
              /\ frame_seq' = [frame_seq EXCEPT ![id] = NextSeq(@)]
              /\ dirty_rects' = [dirty_rects EXCEPT ![id] = FALSE]
         ELSE UNCHANGED <<events, frame_seq, dirty_rects>>
    /\ pc' = [pc EXCEPT ![id] = "select"]
    /\ UNCHANGED cmd_q
    /\ UNCHANGED <<sessions, wasActive, connects, cmd_log, callerVars>>
    /\ UNCHANGED unitVars

\* Does anyone still hold a sender of the command channel of id: the handle
\* in the registry, or a caller that holds the handle or a clone of cmd_tx.
SenderAlive(id) ==
    \/ id \in DOMAIN sessions
    \/ \E c \in Callers :
         /\ caller[c].id = id
         /\ caller[c].pc \in {"open_insert", "mouse_send", "key_send",
                              "close_send", "close_wait"}

\* Mutant of RecvCommand: a select biased towards the socket, which polls
\* the queue only when the socket has nothing to read.
RecvCommand_AfterSocket(id) ==
    /\ pc[id] = "select"
    /\ ~ENABLED SocketRead(id)
    /\ IF cmd_q[id] = << >>
       THEN \* recv() gives None once every sender is gone
            /\ ~SenderAlive(id)
            /\ ExitStop(id, ReasonUser)
       ELSE LET cmd == Head(cmd_q[id]) IN
            IF cmd.kind = "Close"
            THEN ExitStop(id, ReasonUser)
            ELSE \* MouseEvent / KeyEvent: process_fastpath_input may fail
                 \* or give no ResponseFrame, or give one to write
                 /\ \E response \in BOOLEAN :
                      pc' = [pc EXCEPT ![id] =
                                IF response THEN "input_write" ELSE "select"]
                 /\ cmd_q' = [cmd_q EXCEPT ![id] = Tail(@)]
                 /\ UNCHANGED <<events, dirty_rects, frame_seq>>
    /\ UNCHANGED <<sessions, wasActive, connects, cmd_log, callerVars>>
    /\ UNCHANGED unitVars

\* select!, branch `cmd_rx.recv()`.
RecvCommand(id) ==
    /\ pc[id] = "select"
    /\ IF cmd_q[id] = << >>
       THEN \* recv() gives None once every sender is gone
            /\ ~SenderAlive(id)
            /\ ExitStop(id, ReasonUser)
       ELSE LET cmd == Head(cmd_q[id]) IN
            IF cmd.kind = "Close"
            THEN ExitStop(id, ReasonUser)
            ELSE \* MouseEvent / KeyEvent: process_fastpath_input may fail
                 \* or give no ResponseFrame, or give one to write
                 /\ \E response \in BOOLEAN :
                      pc' = [pc EXCEPT ![id] =
                                IF response THEN "input_write" ELSE "select"]
                 /\ cmd_q' = [cmd_q EXCEPT ![id] = Tail(@)]
                 /\ UNCHANGED <<events, dirty_rects, frame_seq>>
    /\ UNCHANGED <<sessions, wasActive, connects, cmd_log, callerVars>>
    /\ UNCHANGED unitVars

\* `wr.write_all(&bytes).await` of a ResponseFrame made by an input command.
InputWrite(id) ==
    /\ pc[id] = "input_write"
    /\ \E ok \in BOOLEAN :
         IF ok
         THEN /\ pc' = [pc EXCEPT ![id] = "select"]
              /\ UNCHANGED <<events, cmd_q, dirty_rects, frame_seq>>
         ELSE InputWriteFailed(id)
    /\ UNCHANGED <<sessions, wasActive, connects, cmd_log, callerVars>>
    /\ UNCHANGED unitVars

TaskStep(id) ==
    \/ TcpConnect(id)
    \/ ConnectBegin(id)
    \/ TlsUpgrade(id)
    \/ ConnectFinalize(id)
    \/ SocketRead(id)
    \/ ProcessOutput(id)
    \/ RespWrite(id)
    \/ FrameTick(id)
    \/ RecvCommand(id)
    \/ InputWrite(id)

(***************************************************************************)
(* The registry: RdpSessionManager, session_manager.rs.                    *)
(***************************************************************************)

Return(c, op, id, res) ==
    /\ ret' = [caller |-> c, op |-> op, id |-> id, res |-> res]
    /\ caller' = [caller EXCEPT ![c] = Idle]

\* tx.send(cmd): fails when the receiver is gone, else queues the command.
ChannelSend(id, cmd) ==
    IF ChannelOpen(id)
    THEN /\ cmd_q' = [cmd_q EXCEPT ![id] = Append(@, cmd)]
         /\ cmd_log' = [cmd_log EXCEPT ![id] = Append(@, cmd)]
    ELSE UNCHANGED <<cmd_q, cmd_log>>

\* open_session up to the spawn: a fresh id, the two channels, tokio::spawn.
OpenSpawn(c) ==
    /\ caller[c].pc = "idle"
    /\ \E id \in SessionIds :
         /\ pc[id] = "unspawned"
         /\ pc' = [pc EXCEPT ![id] = "connect"]
         /\ caller' = [caller EXCEPT ![c] = [Idle EXCEPT !.pc = "open_insert", !.id = id]]
    /\ UNCHANGED <<sessions, cmd_q, events, dirty_rects, frame_seq,
                   ret, cmd_log, connects, wasActive, ncalls>>
    /\ UNCHANGED unitVars

\* Mutant of OpenInsert: open_session awaits the end of the handshake and
\* hands a setup failure back as its own error.
OpenInsert_Waits(c) ==
    /\ caller[c].pc = "open_insert"
    /\ LET id == caller[c].id IN
         /\ pc[id] \notin SetupPcs
         /\ IF pc[id] = "done" /\ ~wasActive[id]
            THEN /\ Return(c, "open_session", id, "connect failed")
                 /\ UNCHANGED sessions
            ELSE /\ sessions' = [i \in DOMAIN sessions \cup {id} |->
                                   IF i = id THEN SessionHandle(0) ELSE sessions[i]]
                 /\ Return(c, "open_session", id, ResOk)
    /\ UNCHANGED <<taskVars, cmd_q, cmd_log, ncalls>>
    /\ UNCHANGED unitVars

\* Mutant of OpenInsert: a task that has already ended is not registered.
OpenInsert_SkipsEnded(c) ==
    /\ caller[c].pc = "open_insert"
    /\ LET id == caller[c].id IN
         /\ IF pc[id] = "done"
            THEN UNCHANGED sessions
            ELSE sessions' = [i \in DOMAIN sessions \cup {id} |->
                                IF i = id THEN SessionHandle(0) ELSE sessions[i]]
         /\ Return(c, "open_session", id, ResOk)
    /\ UNCHANGED <<taskVars, cmd_q, cmd_log, ncalls>>
    /\ UNCHANGED unitVars

\* open_session from the lock on: insert the handle, return Ok((id, rx)).
OpenInsert(c) ==
    /\ caller[c].pc = "open_insert"
    /\ LET id == caller[c].id IN
         /\ sessions' = [i \in DOMAIN sessions \cup {id} |->
                            IF i = id THEN SessionHandle(0) ELSE sessions[i]]
         /\ Return(c, "open_session", id, ResOk)
    /\ UNCHANGED <<taskVars, cmd_q, cmd_log, ncalls>>
    /\ UNCHANGED unitVars

\* Mutant of MouseLock: a missing session is skipped without an error.
MouseLock_UnknownOk(c) ==
    /\ caller[c].pc = "idle"
    /\ ncalls < MaxCalls
    /\ ncalls' = ncalls + 1
    /\ \E id \in CallIds, buttons \in ButtonMasks :
         IF id \notin DOMAIN sessions
         THEN /\ Return(c, "send_mouse", id, ResOk)
              /\ UNCHANGED sessions
         ELSE /\ caller' = [caller EXCEPT ![c] =
                    [pc |-> "mouse_send", id |-> id, buttons |-> buttons,
                     prev |-> sessions[id].last_buttons]]
              /\ sessions' = [sessions EXCEPT ![id].last_buttons = buttons]
              /\ UNCHANGED ret
    /\ UNCHANGED <<taskVars, cmd_q, cmd_log>>
    /\ UNCHANGED unitVars

\* send_mouse, the critical section: look the handle up, read and replace
\* last_buttons, clone the sender.
MouseLock(c) ==
    /\ caller[c].pc = "idle"
    /\ ncalls < MaxCalls
    /\ ncalls' = ncalls + 1
    /\ \E id \in CallIds, buttons \in ButtonMasks :
         IF id \notin DOMAIN sessions
         THEN /\ Return(c, "send_mouse", id, ErrUnknown)
              /\ UNCHANGED sessions
         ELSE /\ caller' = [caller EXCEPT ![c] =
                    [pc |-> "mouse_send", id |-> id, buttons |-> buttons,
                     prev |-> sessions[id].last_buttons]]
              /\ sessions' = [sessions EXCEPT ![id].last_buttons = buttons]
              /\ UNCHANGED ret
    /\ UNCHANGED <<taskVars, cmd_q, cmd_log>>
    /\ UNCHANGED unitVars

\* send_mouse after the lock is released: tx.send(MouseEvent { .. }).
MouseSend(c) ==
    /\ caller[c].pc = "mouse_send"
    /\ LET id == caller[c].id IN
         /\ ChannelSend(id, MouseEvent(caller[c].buttons, caller[c].prev))
         /\ Return(c, "send_mouse", id,
                   IF ChannelOpen(id) THEN ResOk ELSE ErrChannelClosed)
    /\ UNCHANGED <<sessions, taskVars, ncalls>>
    /\ UNCHANGED unitVars

\* send_key, the critical section: look the handle up, clone the sender.
KeyLock(c) ==
    /\ caller[c].pc = "idle"
    /\ ncalls < MaxCalls
    /\ ncalls' = ncalls + 1
    /\ \E id \in CallIds :
         IF id \notin DOMAIN sessions
         THEN /\ Return(c, "send_key", id, ErrUnknown)
         ELSE /\ caller' = [caller EXCEPT ![c] = [Idle EXCEPT !.pc = "key_send", !.id = id]]
              /\ UNCHANGED ret
    /\ UNCHANGED <<sessions, taskVars, cmd_q, cmd_log>>
    /\ UNCHANGED unitVars

\* send_key after the lock is released: tx.send(KeyEvent { .. }).
KeySend(c) ==
    /\ caller[c].pc = "key_send"
    /\ LET id == caller[c].id IN
         /\ ChannelSend(id, KeyEvent)
         /\ Return(c, "send_key", id,
                   IF ChannelOpen(id) THEN ResOk ELSE ErrChannelClosed)
    /\ UNCHANGED <<sessions, taskVars, ncalls>>
    /\ UNCHANGED unitVars

\* close, the critical section: sessions.remove(session_id).
CloseRemove(c) ==
    /\ caller[c].pc = "idle"
    /\ ncalls < MaxCalls
    /\ ncalls' = ncalls + 1
    /\ \E id \in CallIds :
         IF id \notin DOMAIN sessions
         THEN /\ Return(c, "close", id, ErrUnknown)
              /\ UNCHANGED sessions
         ELSE /\ caller' = [caller EXCEPT ![c] = [Idle EXCEPT !.pc = "close_send", !.id = id]]
              /\ sessions' = [i \in DOMAIN sessions \ {id} |-> sessions[i]]
              /\ UNCHANGED ret
    /\ UNCHANGED <<taskVars, cmd_q, cmd_log>>
    /\ UNCHANGED unitVars

\* close: `let _ = handle.cmd_tx.send(SessionCommand::Close);`
CloseSend(c) ==
    /\ caller[c].pc = "close_send"
    /\ ChannelSend(caller[c].id, CloseCmd)
    /\ caller' = [caller EXCEPT ![c].pc = "close_wait"]
    /\ UNCHANGED <<sessions, taskVars, ret, ncalls>>
    /\ UNCHANGED unitVars

\* close: timeout(2 s, handle.task_handle) resolves because the task ended.
CloseJoin(c) ==
    /\ caller[c].pc = "close_wait"
    /\ pc[caller[c].id] = "done"
    /\ Return(c, "close", caller[c].id, ResOk)
    /\ UNCHANGED <<sessions, taskVars, cmd_q, cmd_log, ncalls>>
    /\ UNCHANGED unitVars

\* Mutant of CloseTimeout: the task is aborted when the 2 s have passed.
CloseTimeout_Aborts(c) ==
    /\ caller[c].pc = "close_wait"
    /\ pc[caller[c].id] # "done"
    /\ Return(c, "close", caller[c].id, ResOk)
    /\ Finish(caller[c].id, << >>)
    /\ UNCHANGED <<sessions, connects, wasActive, cmd_log, ncalls>>
    /\ UNCHANGED unitVars

\* close: the 2 s pass first; the JoinHandle is dropped, which detaches the
\* task (nothing calls abort), and close returns Ok(()).
CloseTimeout(c) ==
    /\ caller[c].pc = "close_wait"
    /\ pc[caller[c].id] # "done"
    /\ Return(c, "close", caller[c].id, ResOk)
    /\ UNCHANGED <<sessions, taskVars, cmd_q, cmd_log, ncalls>>
    /\ UNCHANGED unitVars

CallerStep(c) ==
    \/ OpenSpawn(c)
    \/ OpenInsert(c)
    \/ MouseLock(c)
    \/ MouseSend(c)
    \/ KeyLock(c)
    \/ KeySend(c)
    \/ CloseRemove(c)
    \/ CloseSend(c)
    \/ CloseJoin(c)
    \/ CloseTimeout(c)

Next ==
    \/ \E id \in SessionIds : TaskStep(id)
    \/ \E c \in Callers : CallerStep(c)

Spec == Init /\ [][Next]_vars

TypeOK ==
    /\ DOMAIN sessions \subseteq SessionIds
    /\ \A id \in SessionIds :
         /\ pc[id] \in {"unspawned", "done"} \cup SetupPcs \cup ActivePcs
         /\ frame_seq[id] \in 0..MaxFrames
         /\ Len(cmd_q[id]) <= MaxCalls

(***************************************************************************)
(* The PDU framer: find_pdu_size and the read arm of the main loop,        *)
(* session_task.rs, with the bytes of the socket spelled out.  SpecFramer  *)
(* starts where the session is Active and feeds the loop any byte stream   *)
(* in any split; what stage.process answers to a PDU is the adapter's      *)
(* (ironrdp) choice.                                                       *)
(***************************************************************************)
MaxStream == 5      \* bytes the server sends in a run, leftover included
MaxLeftover == 1    \* bytes the handshake left in the buffer

\* Byte values: zero, lengths up to the size of the stream, the legacy
\* marker 0x03 and 0x80, the high bit of the second fast-path byte.
Bytes == {0, 1, 2, 3, 4, 128}

ActionX224 == "X224"
ActionFastPath == "FastPath"

None == [some |-> FALSE, action |-> "", size |-> 0]
Some(action, size) == [some |-> TRUE, action |-> action, size |-> size]

\* Mutant of from_be_bytes: the two bytes are read little-endian.
from_be_bytes_Le(hi, lo) == lo * 256 + hi

\* u16::from_be_bytes([hi, lo])
from_be_bytes(hi, lo) == hi * 256 + lo

\* b & 0x80
And80(b) == ((b \div 128) % 2) * 128

\* Mutant of And7F: the high bit is not masked off.
And7F_NoMask(b) == b

\* b & 0x7F
And7F(b) == b % 128

\* Mutant of find_pdu_size: a declared length of zero is a complete PDU.
find_pdu_size_ZeroOk(b) ==
    IF Len(b) < 2 THEN None
    ELSE IF b[1] = 3
    THEN IF Len(b) < 4 THEN None
         ELSE LET length == from_be_bytes(b[3], b[4]) IN
              IF Len(b) < length THEN None
              ELSE Some(ActionX224, length)
    ELSE IF And80(b[2]) = 0
    THEN LET length == b[2] IN
         IF Len(b) < length THEN None
         ELSE Some(ActionFastPath, length)
    ELSE IF Len(b) < 3 THEN None
         ELSE LET length == And7F(b[2]) * 256 + b[3] IN
              IF Len(b) < length THEN None
              ELSE Some(ActionFastPath, length)

\* find_pdu_size(buf); buf[0] of the code is b[1] here.
find_pdu_size(b) ==
    IF Len(b) < 2 THEN None
    ELSE IF b[1] = 3
    THEN IF Len(b) < 4 THEN None
         ELSE LET length == from_be_bytes(b[3], b[4]) IN
              IF length = 0 \/ Len(b) < length THEN None
              ELSE Some(ActionX224, length)
    ELSE IF And80(b[2]) = 0
    THEN LET length == b[2] IN
         IF length = 0 \/ Len(b) < length THEN None
         ELSE Some(ActionFastPath, length)
    ELSE IF Len(b) < 3 THEN None
         ELSE LET length == And7F(b[2]) * 256 + b[3] IN
              IF length = 0 \/ Len(b) < length THEN None
              ELSE Some(ActionFastPath, length)

\* Mutant of split_to: the last byte of the frame stays in the buffer too.
split_to_KeepsLast(b, at) ==
    [head |-> SubSeq(b, 1, at), rest |-> SubSeq(b, at, Len(b))]

\* buf.split_to(size): the first `at` bytes are returned, the buffer keeps
\* the rest.
split_to(b, at) ==
    [head |-> SubSeq(b, 1, at), rest |-> SubSeq(b, at + 1, Len(b))]

\* What stage.process does with a PDU, as far as the loop tells it apart:
\* Ok(outputs) without or with a Terminate / DeactivateAll, or Err.
AdapterResults == {"ok", "term", "deact", "err"}

\* The session is registered and its task has reached the main loop; buf
\* holds what framed.into_inner() left over.
FramerInit ==
    /\ sessions = [id \in SessionIds |-> SessionHandle(0)]
    /\ pc = [id \in SessionIds |-> "select"]
    /\ cmd_q = [id \in SessionIds |-> << >>]
    /\ events = [id \in SessionIds |-> << >>]
    /\ dirty_rects = [id \in SessionIds |-> FALSE]
    /\ frame_seq = [id \in SessionIds |-> 0]
    /\ caller = [c \in Callers |-> Idle]
    /\ ret = [caller |-> 0, op |-> "", id |-> "", res |-> ""]
    /\ cmd_log = [id \in SessionIds |-> << >>]
    /\ connects = [id \in SessionIds |-> 1]
    /\ wasActive = [id \in SessionIds |-> TRUE]
    /\ ncalls = 0
    /\ \E n \in 0..MaxLeftover : \E leftover \in [1..n -> Bytes] :
         rx = leftover /\ buf = leftover
    /\ pdus = << >>
    /\ found = NoCall
    /\ MergeIdle
    /\ FullIdle
    /\ MoreIdle

\* rd.read_buf(&mut buf): an error, n == 0, or n > 0 bytes appended.
ReadBuf(id) ==
    /\ pc[id] = "select"
    /\ \E outcome \in {"error", "eof", "bytes"} :
         CASE outcome = "error" ->
                /\ RunSessionErr(id, ReasonRead)
                /\ UNCHANGED <<rx, buf>>
           [] outcome = "eof" ->
                /\ ExitStop(id, ReasonServerClosed)
                /\ UNCHANGED <<rx, buf>>
           [] outcome = "bytes" ->
                /\ \E n \in 1..(MaxStream - Len(rx)) : \E chunk \in [1..n -> Bytes] :
                     /\ rx' = rx \o chunk
                     /\ buf' = buf \o chunk
                /\ pc' = [pc EXCEPT ![id] = "process"]
                /\ UNCHANGED <<events, cmd_q, dirty_rects, frame_seq>>
    /\ UNCHANGED <<pdus, found>>
    /\ UNCHANGED <<sessions, wasActive, connects, cmd_log, callerVars>>
    /\ UNCHANGED <<mergeVars, fullVars, moreVars>>

\* One turn of `while let Some((action, size)) = find_pdu_size(&buf)`:
\* split the frame off and give it to stage.process, or leave the loop.
ExtractPdu(id) ==
    /\ pc[id] = "process"
    /\ LET r == find_pdu_size(buf) IN
         /\ found' = [called |-> TRUE, arg |-> buf, res |-> r]
         /\ IF r.some
            THEN /\ buf' = split_to(buf, r.size).rest
                 /\ pdus' = Append(pdus, [action |-> r.action,
                                          bytes |-> split_to(buf, r.size).head])
                 /\ \E result \in AdapterResults :
                      CASE result = "ok" ->
                             UNCHANGED <<pc, events, cmd_q, dirty_rects, frame_seq>>
                        [] result = "term" -> ExitStop(id, ReasonTerminate)
                        [] result = "deact" -> ExitStop(id, ReasonDeactivate)
                        [] result = "err" -> ExitStop(id, ReasonProcessing)
            ELSE /\ pc' = [pc EXCEPT ![id] = "select"]
                 /\ UNCHANGED <<buf, pdus, events, cmd_q, dirty_rects, frame_seq>>
    /\ UNCHANGED rx
    /\ UNCHANGED <<sessions, wasActive, connects, cmd_log, callerVars>>
    /\ UNCHANGED <<mergeVars, fullVars, moreVars>>

FramerNext == \E id \in SessionIds : ReadBuf(id) \/ ExtractPdu(id)

SpecFramer == FramerInit /\ [][FramerNext]_vars

(***************************************************************************)
(* Dirty rectangles: FrameRect and merge_rects, frame_encode.rs.           *)
(* SpecMerge builds a dirty-rect list out of RectPool, calls merge_rects   *)
(* on it, and then calls it again on its own result or on a reordering of  *)
(* the list it was given.                                                  *)
(***************************************************************************)
MaxRects == 3       \* rectangles in a dirty-rect list

FrameRect(x, y, width, height) ==
    [x |-> x, y |-> y, width |-> width, height |-> height]

\* Rectangles as rect_from_inclusive makes them: width, height >= 1 and
\* inside the desktop.  Among them are pairs that overlap, that touch along
\* an edge, that touch at a corner only, and that are apart.
RectPool ==
    { FrameRect(x, y, 10, 10) : x \in {0, 10, 30}, y \in {0, 10, 30} }
        \cup { FrameRect(p, p, 5, 5) : p \in {0, 10, 30} }

\* u16 arithmetic of a release build (a debug build panics instead); the
\* rectangles of a desktop never get there.
WrapU16(n) == n % 65536

\* FrameRect::right, FrameRect::bottom: the inclusive edges
right(r) == WrapU16(WrapU16(r.x + r.width) - 1)
bottom(r) == WrapU16(WrapU16(r.y + r.height) - 1)

Min(a, b) == IF a <= b THEN a ELSE b
Max(a, b) == IF a >= b THEN a ELSE b

\* Mutant of intersects_or_adjacent: rectangles that only touch are not
\* taken for mergeable.
intersects_or_adjacent_NoAdjacent(a, b) ==
    ~ \/ right(a) < b.x
      \/ right(b) < a.x
      \/ bottom(a) < b.y
      \/ bottom(b) < a.y

\* FrameRect::intersects_or_adjacent
intersects_or_adjacent(a, b) ==
    ~ \/ right(a) + 1 < b.x
      \/ right(b) + 1 < a.x
      \/ bottom(a) + 1 < b.y
      \/ bottom(b) + 1 < a.y

\* FrameRect::union
union(a, b) ==
    LET left == Min(a.x, b.x)
        top == Min(a.y, b.y)
        r == Max(right(a), right(b))
        bot == Max(bottom(a), bottom(b))
    IN  FrameRect(left, top, WrapU16(WrapU16(r - left) + 1),
                  WrapU16(WrapU16(bot - top) + 1))

\* Vec::swap_remove(j): element j is replaced by the last one.
swap_remove(rs, j) ==
    [k \in 1..(Len(rs) - 1) |-> IF k = j THEN rs[Len(rs)] ELSE rs[k]]

RECURSIVE MergeInner(_, _, _, _)
\* `while j < rects.len()`; rects[i] of the code is rs[i + 1] here.
MergeInner(rs, i, j, changed) ==
    IF j > Len(rs) THEN [rects |-> rs, changed |-> changed]
    ELSE IF intersects_or_adjacent(rs[i], rs[j])
    THEN MergeInner(swap_remove([rs EXCEPT ![i] = union(rs[i], rs[j])], j),
                    i, j, TRUE)
    ELSE MergeInner(rs, i, j + 1, changed)

RECURSIVE MergeMiddle(_, _, _)
\* `while i < rects.len()`
MergeMiddle(rs, i, changed) ==
    IF i > Len(rs) THEN [rects |-> rs, changed |-> changed]
    ELSE LET r == MergeInner(rs, i, i + 1, changed) IN
         MergeMiddle(r.rects, i + 1, r.changed)

RECURSIVE MergeOuter(_, _)
\* `while changed`; passes counts the turns of this loop.
MergeOuter(rs, passes) ==
    LET r == MergeMiddle(rs, 1, FALSE) IN
    IF r.changed THEN MergeOuter(r.rects, passes + 1)
    ELSE [rects |-> r.rects, passes |-> passes + 1]

\* Mutant of merge_rects: one turn of the outer loop only.
merge_rects_OnePass(rs) ==
    IF Len(rs) < 2 THEN rs ELSE MergeMiddle(rs, 1, FALSE).rects

\* merge_rects
merge_rects(rs) ==
    IF Len(rs) < 2 THEN rs ELSE MergeOuter(rs, 0).rects

\* The turns the outer loop of merge_rects takes on rs.
merge_passes(rs) ==
    IF Len(rs) < 2 THEN 0 ELSE MergeOuter(rs, 0).passes

\* A call of merge_rects and what came back.
MergeCalled(rs, via) ==
    [called |-> TRUE, via |-> via, arg |-> rs,
     out |-> merge_rects(rs), passes |-> merge_passes(rs)]

\* GraphicsUpdate: `dirty_rects.push(rect)`
PushRect ==
    /\ ~merged.called
    /\ Len(rects) < MaxRects
    /\ \E r \in RectPool : rects' = Append(rects, r)
    /\ UNCHANGED merged
    /\ UNCHANGED <<sessionVars, framerVars, fullVars, moreVars>>

\* merge_rects(std::mem::take(&mut dirty_rects))
MergeCall ==
    /\ ~merged.called
    /\ merged' = MergeCalled(rects, "call")
    /\ UNCHANGED rects
    /\ UNCHANGED <<sessionVars, framerVars, fullVars, moreVars>>

\* merge_rects on the list the last call returned: what happens to merged
\* rects that were pushed back because no patch could be encoded.
Remerge ==
    /\ merged.called
    /\ rects' = merged.out
    /\ merged' = MergeCalled(merged.out, "remerge")
    /\ UNCHANGED <<sessionVars, framerVars, fullVars, moreVars>>

\* merge_rects on the rectangles of the last call in another order.
MergePermuted ==
    /\ merged.called
    /\ \E p \in Permutations(1..Len(merged.arg)) :
         LET rs == [k \in 1..Len(merged.arg) |-> merged.arg[p[k]]] IN
         /\ rects' = rs
         /\ merged' = MergeCalled(rs, "permuted")
    /\ UNCHANGED <<sessionVars, framerVars, fullVars, moreVars>>

MergeNext == PushRect \/ MergeCall \/ Remerge \/ MergePermuted

SpecMerge == Init /\ [][MergeNext]_vars

(***************************************************************************)
(* The keyframe threshold: total_dirty_area and should_emit_full_frame,    *)
(* frame_encode.rs.  A u32 does not fit the integers of the model          *)
(* checker, so a number is kept as hi * 65536 + lo with lo < 65536; it is  *)
(* a u32 when hi < 65536.  SpecFull builds the arguments of one call of    *)
(* should_emit_full_frame and makes it.                                    *)
(***************************************************************************)
MaxFullRects == 2   \* rectangles in the list given to should_emit_full_frame

FULL_FRAME_THRESHOLD_PERCENT == 45

\* Desktop widths and heights: none, the two of the tests, and a large one.
Dimensions == {0, 100, 200, 10000}

\* threshold_percent: the two ends of u8, the one of the tests and the one
\* the session uses.
Thresholds == {0, 40, FULL_FRAME_THRESHOLD_PERCENT, 255}

\* Dirty rects: the 64x64 one of the tests, half of a 200x200 desktop, and a
\* 6600x6600 one, 43.56% of a 10000x10000 desktop.
FullRectPool ==
    {FrameRect(0, 0, 64, 64), FrameRect(0, 0, 100, 200), FrameRect(0, 0, 6600, 6600)}

Wide(hi, lo) == [hi |-> hi + lo \div 65536, lo |-> lo % 65536]

WideAdd(a, b) == Wide(a.hi + b.hi, a.lo + b.lo)

\* a times k, for k < 256
WideMul(a, k) == Wide(a.hi * k, a.lo * k)

WideGeq(a, b) == a.hi > b.hi \/ (a.hi = b.hi /\ a.lo >= b.lo)

\* The product of two u16, which is a u32.
MulU16(a, b) ==
    LET upper == a * (b \div 256)
        lower == a * (b % 256)
    IN  Wide(upper \div 256, (upper % 256) * 256 + lower)

U32Max == [hi |-> 65535, lo |-> 65535]

\* A sum of u32 in a release build wraps (a debug build panics instead);
\* the rects of one desktop never get there.
WrapU32(a) == [hi |-> a.hi % 65536, lo |-> a.lo]

\* u32::saturating_mul
saturating_mul(a, k) ==
    IF WideMul(a, k).hi >= 65536 THEN U32Max ELSE WideMul(a, k)

\* FrameRect::area
area(r) == MulU16(r.width, r.height)

RECURSIVE total_dirty_area(_)
\* total_dirty_area: rects.iter().map(FrameRect::area).sum()
total_dirty_area(rs) ==
    IF rs = << >> THEN Wide(0, 0)
    ELSE WrapU32(WideAdd(area(Head(rs)), total_dirty_area(Tail(rs))))

\* should_emit_full_frame
should_emit_full_frame(rs, width, height, percent) ==
    IF rs = << >> \/ width = 0 \/ height = 0 THEN FALSE
    ELSE LET dirty == total_dirty_area(rs)
             total == MulU16(width, height)
         IN  WideGeq(saturating_mul(dirty, 100), saturating_mul(total, percent))

\* The caller chooses the desktop and the threshold.
FullSetDesktop ==
    /\ ~ff_ret.called
    /\ ff_rects = << >>
    /\ \E w \in Dimensions, h \in Dimensions, t \in Thresholds :
         /\ desktop_width' = w
         /\ desktop_height' = h
         /\ threshold_percent' = t
    /\ UNCHANGED <<ff_rects, ff_ret>>
    /\ UNCHANGED <<sessionVars, framerVars, mergeVars, moreVars>>

\* The caller adds a rect to the list.
FullPushRect ==
    /\ ~ff_ret.called
    /\ Len(ff_rects) < MaxFullRects
    /\ \E r \in FullRectPool : ff_rects' = Append(ff_rects, r)
    /\ UNCHANGED <<desktop_width, desktop_height, threshold_percent, ff_ret>>
    /\ UNCHANGED <<sessionVars, framerVars, mergeVars, moreVars>>

\* should_emit_full_frame(&rects, desktop_width, desktop_height, threshold)
FullCall ==
    /\ ~ff_ret.called
    /\ ff_ret' = [called |-> TRUE,
                  ret |-> should_emit_full_frame(ff_rects, desktop_width,
                                                 desktop_height, threshold_percent)]
    /\ UNCHANGED <<ff_rects, desktop_width, desktop_height, threshold_percent>>
    /\ UNCHANGED <<sessionVars, framerVars, mergeVars, moreVars>>

FullNext == FullSetDesktop \/ FullPushRect \/ FullCall

SpecFull == Init /\ [][FullNext]_vars

(***************************************************************************)
(* The constants of the frame tick, session_task.rs.                       *)
(***************************************************************************)
FRAME_INTERVAL_LEVELS == <<33, 40, 50, 66>>
KEYFRAME_INTERVAL_MS == 2000
JPEG_QUALITY_MAX == 92
JPEG_QUALITY_MIN == 75
JPEG_QUALITY_STEP_DOWN == 5
JPEG_QUALITY_STEP_UP == 3
OVER_BUDGET_STREAK_THRESHOLD == 3
UNDER_BUDGET_STREAK_THRESHOLD == 20

(***************************************************************************)
(* encode_rect and extract_rgba_rect, frame_encode.rs.                     *)
(***************************************************************************)
MaxImage == 2       \* width and height of the images given to encode_rect

PixelFormatRgbA32 == "RgbA32"
PixelFormatBgrA32 == "BgrA32"
\* The pixel formats the crate names: the one extract_rgba_rect tells apart
\* and the one the session creates its image with.
PixelFormats == {PixelFormatRgbA32, PixelFormatBgrA32}

PatchCodecRaw == "Raw"
PatchCodecJpeg == "Jpeg"
PatchCodecs == {PatchCodecRaw, PatchCodecJpeg}

\* decoded.bytes_per_pixel() of a 32-bit format
BytesPerPixel == 4

\* The framebuffer contents tried: byte k of the buffer is seed + k mod 256.
Seeds == {0, 100}

\* A DecodedImage.  The buffer is not stored: byte k is DataAt(decoded, k).
DecodedImage(pixel_format, w, h, seed) ==
    [pixel_format |-> pixel_format, width |-> w, height |-> h, seed |-> seed]

\* decoded.stride(): rows are not padded
stride(decoded) == decoded.width * BytesPerPixel

\* decoded.data().len()
DataLen(decoded) == stride(decoded) * decoded.height

\* decoded.data()[k], k counted from 0
DataAt(decoded, k) == (decoded.seed + k) % 256

NoData == [some |-> FALSE]
SomeData(v) == [some |-> TRUE, data |-> v]

\* extract_rgba_rect: `row_start` and `row_end` of a row
row_start(decoded, rect, row) == row * stride(decoded) + rect.x * BytesPerPixel
row_end(decoded, rect, row) ==
    row_start(decoded, rect, row) + rect.width * BytesPerPixel

\* extract_rgba_rect returns Some: none of its early returns is taken, in
\* the checks before the loop or in a turn of the loop.  row_end grows with
\* the row, so the turn of the last row decides for all of them.
extract_is_some(decoded, rect) ==
    /\ ~(decoded.width = 0 \/ decoded.height = 0)
    /\ ~(rect.width = 0 \/ rect.height = 0)
    /\ ~(rect.x >= decoded.width \/ rect.y >= decoded.height)
    /\ ~ \/ rect.width > decoded.width - rect.x
         \/ rect.height > decoded.height - rect.y
    /\ ~(BytesPerPixel # 4)
    /\ ~(row_end(decoded, rect, rect.y + rect.height - 1) > DataLen(decoded))

\* Mutant of Pixel: the bytes are copied in the order of the buffer whatever
\* the format is.
Pixel_NoSwap(decoded, at) ==
    <<DataAt(decoded, at), DataAt(decoded, at + 1),
      DataAt(decoded, at + 2), DataAt(decoded, at + 3)>>

\* extract_rgba_rect, the match on the pixel format: the four bytes pushed
\* for the pixel that starts at byte `at`.
Pixel(decoded, at) ==
    IF decoded.pixel_format = PixelFormatRgbA32
    THEN <<DataAt(decoded, at), DataAt(decoded, at + 1),
           DataAt(decoded, at + 2), DataAt(decoded, at + 3)>>
    ELSE <<DataAt(decoded, at + 2), DataAt(decoded, at + 1),
           DataAt(decoded, at), DataAt(decoded, at + 3)>>

RECURSIVE RowPixels(_, _, _)
\* extract_rgba_rect, the inner loop: row_data.chunks_exact(4) from byte `from`
\* up to byte `to`
RowPixels(decoded, from, to) ==
    IF from + BytesPerPixel > to THEN << >>
    ELSE Pixel(decoded, from) \o RowPixels(decoded, from + BytesPerPixel, to)

RECURSIVE ExtractRows(_, _, _)
\* extract_rgba_rect, the outer loop from `row` on
ExtractRows(decoded, rect, row) ==
    IF row >= rect.y + rect.height THEN << >>
    ELSE RowPixels(decoded, row_start(decoded, rect, row),
                   row_end(decoded, rect, row))
             \o ExtractRows(decoded, rect, row + 1)

\* extract_rgba_rect
extract_rgba_rect(decoded, rect) ==
    IF extract_is_some(decoded, rect)
    THEN SomeData(ExtractRows(decoded, rect, rect.y))
    ELSE NoData

RECURSIVE DropAlpha(_)
\* extract_rgb_rect, the loop: px[0], px[1], px[2] of every four bytes
DropAlpha(rgba) ==
    IF Len(rgba) < 4 THEN << >>
    ELSE <<rgba[1], rgba[2], rgba[3]>> \o DropAlpha(SubSeq(rgba, 5, Len(rgba)))

\* extract_rgb_rect; RgbImage::from_raw has the bytes it asks for.
extract_rgb_rect(decoded, rect) ==
    LET rgba == extract_rgba_rect(decoded, rect)
    IN  IF rgba = NoData THEN NoData ELSE SomeData(DropAlpha(rgba.data))

\* The output of the JPEG encoder is not looked into: it stands for the
\* pixels it was made from and the quality.
JpegOf(rgb, quality) == <<"JFIF", quality, rgb>>

\* encode_rect.  jpeg_ok is the outcome of encoder.encode_image.
encode_rect(decoded, rect, codec, quality, jpeg_ok) ==
    IF codec = PatchCodecRaw THEN extract_rgba_rect(decoded, rect)
    ELSE LET rgb == extract_rgb_rect(decoded, rect)
         IN  IF rgb = NoData THEN NoData
             ELSE IF ~jpeg_ok THEN NoData
             ELSE SomeData(JpegOf(rgb.data, quality))

\* encode_rect returns Some
encode_is_some(decoded, rect, codec, jpeg_ok) ==
    /\ extract_is_some(decoded, rect)
    /\ codec = PatchCodecJpeg => jpeg_ok

NoCodec == "none"

\* The body of `for rect in &merged_rects`: the codec of the patch pushed for
\* rect, NoCodec when none is pushed.
patch_codec(decoded, rect, default_codec, jpeg_ok) ==
    IF encode_is_some(decoded, rect, default_codec, jpeg_ok) THEN default_codec
    ELSE IF /\ default_codec = PatchCodecRaw
            /\ encode_is_some(decoded, rect, PatchCodecJpeg, jpeg_ok)
         THEN PatchCodecJpeg
    ELSE NoCodec

\* Mutant of DefaultCodec: only the coarsest level asks for JPEG.
DefaultCodec_RawBelowCoarsest(idx) ==
    IF idx + 1 < Len(FRAME_INTERVAL_LEVELS) THEN PatchCodecRaw ELSE PatchCodecJpeg

\* `let default_codec = if frame_interval_idx == 0 { Raw } else { Jpeg }`
DefaultCodec(idx) ==
    IF idx = 0 THEN PatchCodecRaw ELSE PatchCodecJpeg

\* Rects as a caller can pass them: inside the image, across its edges,
\* outside, and empty.
CodecRects ==
    { FrameRect(x, y, w, h) : x \in 0 .. MaxImage, y \in 0 .. MaxImage,
                              w \in 0 .. MaxImage, h \in 0 .. MaxImage }

\* The caller has an image.
CodecSetImage ==
    /\ image = NoImage
    /\ \E f \in PixelFormats, w \in 0 .. MaxImage, h \in 0 .. MaxImage,
          seed \in Seeds :
         image' = DecodedImage(f, w, h, seed)
    /\ UNCHANGED encoded
    /\ UNCHANGED besidesCodec

\* One turn of `for rect in &merged_rects` on a rect of the caller, at any
\* level of the frame interval.
CodecEncode ==
    /\ image # NoImage
    /\ ~encoded.called
    /\ \E rect \in CodecRects,
          idx \in 0 .. Len(FRAME_INTERVAL_LEVELS) - 1,
          jpeg_ok \in BOOLEAN :
         LET default_codec == DefaultCodec(idx)
             codec == patch_codec(image, rect, default_codec, jpeg_ok)
         IN  encoded' =
                 [called |-> TRUE,
                  rect |-> rect,
                  frame_interval_idx |-> idx,
                  default_codec |-> default_codec,
                  jpeg_ok |-> jpeg_ok,
                  raw |-> extract_rgba_rect(image, rect),
                  codec |-> codec,
                  patch |-> IF codec = NoCodec THEN NoData
                            ELSE encode_rect(image, rect, codec,
                                             JPEG_QUALITY_MAX, jpeg_ok)]
    /\ UNCHANGED image
    /\ UNCHANGED besidesCodec

CodecNext == CodecSetImage \/ CodecEncode

SpecCodec == Init /\ [][CodecNext]_vars

(***************************************************************************)
(* The frame tick of the main loop, session_task.rs: promotion to a        *)
(* keyframe, encoding, emission and the adaptive controller.  The event    *)
(* channel and frame_seq are those of FrameTick above.                     *)
(***************************************************************************)
MaxDirty == 1       \* rects pushed between two frame ticks

U8Max == 255

\* Desktops: the 200x200 one of the tests, and one of 10000x10000.
Desktops == {<<200, 200>>, <<10000, 10000>>}

\* Encode times in ms: within every interval, over the finest only, and
\* over every interval.
EncodeTimes == {33, 34, 67}

\* Time passes in steps of this many ms.
ClockStep == KEYFRAME_INTERVAL_MS \div 2

\* Rects of graphics updates: half of the 200x200 desktop, a small part of
\* the 10000x10000 one; 43.56% of the 10000x10000 desktop.
TickRectPool == {FrameRect(0, 0, 100, 200), FrameRect(0, 0, 6600, 6600)}

\* The rects rect_from_inclusive lets through: those inside the desktop.
UpdateRects(w, h) ==
    { r \in TickRectPool : r.x + r.width <= w /\ r.y + r.height <= h }

\* u8::saturating_add, u8::saturating_sub
saturating_add(a, b) == Min(a + b, U8Max)
saturating_sub(a, b) == Max(a - b, 0)

\* FrameRect::full
full(w, h) == FrameRect(0, 0, w, h)

\* Mutant of Streaks: the other streak is not cleared.
Streaks_NoClear(over, under, encode_ms, frame_interval_ms) ==
    IF encode_ms > frame_interval_ms
    THEN [over |-> saturating_add(over, 1), under |-> under]
    ELSE [over |-> over, under |-> saturating_add(under, 1)]

\* The streaks after the comparison of encode_ms with frame_interval_ms.
Streaks(over, under, encode_ms, frame_interval_ms) ==
    IF encode_ms > frame_interval_ms
    THEN [over |-> saturating_add(over, 1), under |-> 0]
    ELSE [over |-> 0, under |-> saturating_add(under, 1)]

\* Mutant of Coarser: the quality is not held at JPEG_QUALITY_MIN.
Coarser_NoFloor(idx, quality) ==
    [idx |-> IF idx + 1 < Len(FRAME_INTERVAL_LEVELS) THEN idx + 1 ELSE idx,
     quality |-> saturating_sub(quality, JPEG_QUALITY_STEP_DOWN)]

\* The step taken when over_budget_streak reaches its threshold.
Coarser(idx, quality) ==
    [idx |-> IF idx + 1 < Len(FRAME_INTERVAL_LEVELS) THEN idx + 1 ELSE idx,
     quality |-> Max(saturating_sub(quality, JPEG_QUALITY_STEP_DOWN),
                     JPEG_QUALITY_MIN)]

\* Mutant of Finer: the quality is not held at JPEG_QUALITY_MAX.
Finer_NoCeiling(idx, quality) ==
    [idx |-> IF idx > 0 THEN idx - 1 ELSE idx,
     quality |-> saturating_add(quality, JPEG_QUALITY_STEP_UP)]

\* The step taken when under_budget_streak reaches its threshold.
Finer(idx, quality) ==
    [idx |-> IF idx > 0 THEN idx - 1 ELSE idx,
     quality |-> Min(saturating_add(quality, JPEG_QUALITY_STEP_UP),
                     JPEG_QUALITY_MAX)]

\* The adaptive controller: the locals after a tick that took encode_ms.
Adapt(idx, quality, over, under, encode_ms) ==
    LET s == Streaks(over, under, encode_ms, FRAME_INTERVAL_LEVELS[idx + 1])
    IN  IF s.over >= OVER_BUDGET_STREAK_THRESHOLD
        THEN [idx |-> Coarser(idx, quality).idx,
              quality |-> Coarser(idx, quality).quality,
              over |-> 0, under |-> s.under]
        ELSE IF s.under >= UNDER_BUDGET_STREAK_THRESHOLD
        THEN [idx |-> Finer(idx, quality).idx,
              quality |-> Finer(idx, quality).quality,
              over |-> s.over, under |-> 0]
        ELSE [idx |-> idx, quality |-> quality,
              over |-> s.over, under |-> s.under]

RdpFramePatch(rect, codec) ==
    [x |-> rect.x, y |-> rect.y, width |-> rect.width, height |-> rect.height,
     codec |-> codec]

RECURSIVE Patches(_, _, _, _, _)
\* `for rect in &merged_rects`, from the i-th rect on: the patches pushed.
\* jpeg_ok[i] is the outcome of the JPEG encoder on the i-th rect.
Patches(decoded, merged_rects, default_codec, jpeg_ok, i) ==
    IF i > Len(merged_rects) THEN << >>
    ELSE LET codec == patch_codec(decoded, merged_rects[i], default_codec,
                                  jpeg_ok[i])
             rest == Patches(decoded, merged_rects, default_codec, jpeg_ok,
                             i + 1)
         IN  IF codec = NoCodec THEN rest
             ELSE <<RdpFramePatch(merged_rects[i], codec)>> \o rest

\* The promotion to a keyframe
IsKeyframe(merged_all, elapsed, w, h) ==
    \/ elapsed >= KEYFRAME_INTERVAL_MS
    \/ should_emit_full_frame(merged_all, w, h, FULL_FRAME_THRESHOLD_PERCENT)

\* Mutant of KeyframeTimer: every emitted frame resets the timer.
KeyframeTimer_AnyFrame(elapsed, emitted, is_keyframe) ==
    IF emitted THEN 0 ELSE elapsed

\* last_keyframe_time.elapsed() at the end of a tick: the timer is set to
\* now where a keyframe was sent.
KeyframeTimer(elapsed, emitted, is_keyframe) ==
    IF emitted /\ is_keyframe THEN 0 ELSE elapsed

\* Mutant of Requeued: the rects of a tick that made no patch are dropped.
Requeued_Dropped(patches, merged_rects) == << >>

\* dirty_rects at the end of a tick: std::mem::take has emptied it, and
\* `if patches.is_empty() { dirty_rects = merged_rects; }`
Requeued(patches, merged_rects) ==
    IF patches = << >> THEN merged_rects ELSE << >>

\* The connection is established: the locals of the main loop.
TickStart ==
    /\ tick_width = 0
    /\ \E d \in Desktops : tick_width' = d[1] /\ tick_height' = d[2]
    /\ pending_rects' = << >>
    /\ frame_interval_idx' = 0
    /\ jpeg_quality' = JPEG_QUALITY_MAX
    /\ over_budget_streak' = 0
    /\ under_budget_streak' = 0
    /\ keyframe_elapsed' = 0
    /\ UNCHANGED tick
    /\ UNCHANGED besidesTick

\* A graphics update of the server: its rect is pushed.
TickUpdate ==
    /\ tick_width # 0
    /\ Len(pending_rects) < MaxDirty
    /\ \E r \in UpdateRects(tick_width, tick_height) :
         pending_rects' = Append(pending_rects, r)
    /\ UNCHANGED <<tick_width, tick_height, frame_interval_idx, jpeg_quality,
                   over_budget_streak, under_budget_streak, keyframe_elapsed,
                   tick>>
    /\ UNCHANGED besidesTick

\* Time passes; from KEYFRAME_INTERVAL_MS on it makes no difference.
TickClock ==
    /\ tick_width # 0
    /\ keyframe_elapsed < KEYFRAME_INTERVAL_MS
    /\ keyframe_elapsed' = Min(keyframe_elapsed + ClockStep, KEYFRAME_INTERVAL_MS)
    /\ UNCHANGED <<tick_width, tick_height, pending_rects, frame_interval_idx,
                   jpeg_quality, over_budget_streak, under_budget_streak, tick>>
    /\ UNCHANGED besidesTick

\* The frame tick, taken when there are dirty rects and the frame interval
\* has passed.  Of the event channel and frame_seq the tick records what it
\* does to them: whether it sends a Frame, and by how much frame_seq grows.
Tick ==
    /\ tick_width # 0
    /\ pending_rects # << >>
    /\ LET merged_all == merge_rects(pending_rects)
           is_keyframe == IsKeyframe(merged_all, keyframe_elapsed, tick_width, tick_height)
           merged_rects == IF is_keyframe THEN <<full(tick_width, tick_height)>>
                           ELSE merged_all
           default_codec == DefaultCodec(frame_interval_idx)
           decoded == DecodedImage(PixelFormatBgrA32, tick_width, tick_height, 0)
       IN  \E jpeg_ok \in [1 .. Len(merged_rects) -> BOOLEAN],
              encode_ms \in EncodeTimes :
             LET patches == Patches(decoded, merged_rects, default_codec,
                                    jpeg_ok, 1)
                 next == Adapt(frame_interval_idx, jpeg_quality,
                               over_budget_streak, under_budget_streak,
                               encode_ms)
             IN  /\ pending_rects' = Requeued(patches, merged_rects)
                 /\ keyframe_elapsed' =
                        KeyframeTimer(keyframe_elapsed, patches # << >>,
                                      is_keyframe)
                 /\ frame_interval_idx' = next.idx
                 /\ jpeg_quality' = next.quality
                 /\ over_budget_streak' = next.over
                 /\ under_budget_streak' = next.under
                 /\ tick' = [called |-> TRUE,
                             elapsed |-> keyframe_elapsed,
                             is_keyframe |-> is_keyframe,
                             patches |-> patches,
                             sent |-> patches # << >>,
                             seq_advance |-> IF patches = << >> THEN 0
                                             ELSE NextSeq(0),
                             encode_ms |-> encode_ms]
    /\ UNCHANGED <<tick_width, tick_height>>
    /\ UNCHANGED besidesTick

TickNext == TickStart \/ TickUpdate \/ TickClock \/ Tick

SpecTick == Init /\ [][TickNext]_vars

(***************************************************************************)
(* translate_mouse, input.rs.                                              *)
(***************************************************************************)
\* Button masks (u8): every combination of the five buttons, and masks with
\* the bits 5, 6 and 7.
MouseMasks == (0 .. 31) \cup {32, 33, 64, 128, 148, 224, 255}

\* Wheel deltas (i16): the two ends, one notch either way, and none.
WheelDeltas == {-32768, -120, 0, 120, 32767}

\* Pointer positions (u16).
Positions == {<<0, 0>>, <<65535, 7>>}

OpMouseMove(x, y) == [op |-> "MouseMove", x |-> x, y |-> y]
OpMouseButtonPressed(button) == [op |-> "MouseButtonPressed", button |-> button]
OpMouseButtonReleased(button) == [op |-> "MouseButtonReleased", button |-> button]
OpWheelRotations(units) ==
    [op |-> "WheelRotations", is_vertical |-> TRUE, rotation_units |-> units]

\* Mutant of button_map: X2 is read from bit 5.
button_map_X2Bit5 ==
    << <<1, "Left">>, <<2, "Right">>, <<4, "Middle">>, <<8, "X1">>, <<32, "X2">> >>

\* translate_mouse: `button_map`
button_map ==
    << <<1, "Left">>, <<2, "Right">>, <<4, "Middle">>, <<8, "X1">>, <<16, "X2">> >>

\* b & mask != 0, for a mask of one bit
MaskSet(b, mask) == (b \div mask) % 2 # 0

RECURSIVE ButtonOps(_, _, _)
\* translate_mouse: `for (mask, button) in &button_map`, from the i-th pair on
ButtonOps(buttons, prev_buttons, i) ==
    IF i > Len(button_map) THEN << >>
    ELSE LET mask == button_map[i][1]
             button == button_map[i][2]
             was_pressed == MaskSet(prev_buttons, mask)
             is_pressed == MaskSet(buttons, mask)
             rest == ButtonOps(buttons, prev_buttons, i + 1)
         IN  IF is_pressed /\ ~was_pressed
             THEN <<OpMouseButtonPressed(button)>> \o rest
             ELSE IF ~is_pressed /\ was_pressed
             THEN <<OpMouseButtonReleased(button)>> \o rest
             ELSE rest

\* translate_mouse
translate_mouse(x, y, buttons, prev_buttons, wheel_delta) ==
    <<OpMouseMove(x, y)>>
        \o ButtonOps(buttons, prev_buttons, 1)
        \o (IF wheel_delta # 0 THEN <<OpWheelRotations(wheel_delta)>> ELSE << >>)

\* translate_mouse(x, y, buttons, prev_buttons, wheel_delta)
TranslateMouseCall ==
    /\ ~translated.called
    /\ \E p \in Positions, buttons \in MouseMasks, prev_buttons \in MouseMasks,
          wheel_delta \in WheelDeltas :
         translated' =
             [called |-> TRUE, x |-> p[1], y |-> p[2], buttons |-> buttons,
              prev_buttons |-> prev_buttons, wheel_delta |-> wheel_delta,
              ops |-> translate_mouse(p[1], p[2], buttons, prev_buttons,
                                      wheel_delta)]
    /\ UNCHANGED besidesInput

InputNext == TranslateMouseCall

SpecInput == Init /\ [][InputNext]_vars

(***************************************************************************)
(* DbHostKeyPolicy, host_keys.rs.  A call is cut at its awaits of the      *)
(* storage; what it does under the lock of the pending store is one step.  *)
(***************************************************************************)
DecisionAccept == "Accept"
DecisionReject == "Reject"
ErrInvalidToken == "host key mismatch token is invalid or expired"
ErrTokenMismatch == "host key mismatch token does not match this connection"

PendingHostKeyMismatch(token, hp, stored, presented) ==
    [token |-> token, host_port |-> hp, stored |-> stored,
     presented |-> presented, expired |-> FALSE]

\* prune_pending_locked, by_token: the entries older than the TTL go.
PrunedByToken(bt) ==
    [t \in Tokens |-> IF bt[t] # NoPending /\ bt[t].expired THEN NoPending
                      ELSE bt[t]]

\* prune_pending_locked, by_host_port: an entry goes with the expired token
\* it maps to.
PrunedByHostPort(bt, bhp) ==
    [hp \in HostPorts |->
        IF /\ bhp[hp] # NoToken
           /\ bt[bhp[hp]] # NoPending
           /\ bt[bhp[hp]].expired
           /\ bt[bhp[hp]].host_port = hp
        THEN NoToken ELSE bhp[hp]]

\* check_host_key: `keys_match`
keys_match(known_host, server_key) ==
    /\ known_host.key_type = server_key.key_type
    /\ known_host.public_key = server_key.public_key

\* A call returns.
HkReturn(c, op, hp, key, token, res) ==
    /\ hk_call' = [hk_call EXCEPT ![c] = HkIdle]
    /\ hk_ret' = [caller |-> c, op |-> op, host_port |-> hp, key |-> key,
                  token |-> token, res |-> res]

\* check_host_key is called; without strict_host_key it accepts at once.
CheckStart(c) ==
    /\ hk_call[c] = HkIdle
    /\ hk_calls < MaxHkCalls
    /\ hk_calls' = hk_calls + 1
    /\ \E hp \in HostPorts, key \in ServerKeys, strict_host_key \in BOOLEAN :
         IF ~strict_host_key
         THEN HkReturn(c, "check", hp, key, NoToken, DecisionAccept)
         ELSE /\ hk_call' = [hk_call EXCEPT ![c] =
                                [pc |-> "get", host_port |-> hp, key |-> key]]
              /\ UNCHANGED hk_ret
    /\ UNCHANGED <<known_hosts, by_token, by_host_port, next_token>>
    /\ UNCHANGED besidesHostKeys

\* check_host_key: storage.get_ssh_known_host(host, port).await
CheckGet(c) ==
    /\ hk_call[c].pc = "get"
    /\ hk_call' = [hk_call EXCEPT ![c] =
                      [pc |-> "decide", host_port |-> hk_call[c].host_port,
                       key |-> hk_call[c].key,
                       existing |-> known_hosts[hk_call[c].host_port]]]
    /\ UNCHANGED <<known_hosts, by_token, by_host_port, hk_ret, hk_calls,
                   next_token>>
    /\ UNCHANGED besidesHostKeys

\* check_host_key, `None`: storage.upsert_ssh_known_host(..).await pins the
\* key, whatever the table holds by now (ON CONFLICT DO UPDATE).
CheckPin(c) ==
    /\ hk_call[c].pc = "decide"
    /\ hk_call[c].existing = NoKey
    /\ known_hosts' = [known_hosts EXCEPT ![hk_call[c].host_port] = hk_call[c].key]
    /\ HkReturn(c, "check", hk_call[c].host_port, hk_call[c].key, NoToken,
                DecisionAccept)
    /\ UNCHANGED <<by_token, by_host_port, hk_calls, next_token>>
    /\ UNCHANGED besidesHostKeys

\* check_host_key, `Some(known_host)` with keys_match: the row is touched.
CheckMatch(c) ==
    /\ hk_call[c].pc = "decide"
    /\ hk_call[c].existing # NoKey
    /\ keys_match(hk_call[c].existing, hk_call[c].key)
    /\ HkReturn(c, "check", hk_call[c].host_port, hk_call[c].key, NoToken,
                DecisionAccept)
    /\ UNCHANGED <<known_hosts, by_token, by_host_port, hk_calls, next_token>>
    /\ UNCHANGED besidesHostKeys

\* check_host_key, `Some(known_host)` without keys_match:
\* register_pending_mismatch, then Reject.
CheckMismatch(c) ==
    /\ hk_call[c].pc = "decide"
    /\ hk_call[c].existing # NoKey
    /\ ~keys_match(hk_call[c].existing, hk_call[c].key)
    /\ next_token < MaxTokens
    /\ LET hp == hk_call[c].host_port
           token == next_token + 1
           bt == PrunedByToken(by_token)
           bhp == PrunedByHostPort(by_token, by_host_port)
           previous_token == bhp[hp]
           pending == PendingHostKeyMismatch(token, hp, hk_call[c].existing,
                                             hk_call[c].key)
       IN  /\ next_token' = token
           /\ by_host_port' = [bhp EXCEPT ![hp] = token]
           /\ by_token' =
                  [t \in Tokens |-> IF t = token THEN pending
                                    ELSE IF t = previous_token THEN NoPending
                                    ELSE bt[t]]
           /\ HkReturn(c, "check", hp, hk_call[c].key, token, DecisionReject)
    /\ UNCHANGED <<known_hosts, hk_calls>>
    /\ UNCHANGED besidesHostKeys

\* apply_pending_mismatch(token, host, port) up to its await: the token is
\* looked up under the lock and compared with the connection.
ApplyLookup(c) ==
    /\ hk_call[c] = HkIdle
    /\ hk_calls < MaxHkCalls
    /\ hk_calls' = hk_calls + 1
    /\ \E token \in Tokens, hp \in HostPorts :
         LET bt == PrunedByToken(by_token)
             bhp == PrunedByHostPort(by_token, by_host_port)
             pending == bt[token]
         IN  /\ by_token' = bt
             /\ by_host_port' = bhp
             /\ IF pending = NoPending
                THEN HkReturn(c, "apply", hp, NoKey, token, ErrInvalidToken)
                ELSE IF pending.host_port # hp
                THEN HkReturn(c, "apply", hp, NoKey, token, ErrTokenMismatch)
                ELSE /\ hk_call' = [hk_call EXCEPT ![c] =
                                       [pc |-> "upsert", host_port |-> hp,
                                        token |-> token, pending |-> pending]]
                     /\ UNCHANGED hk_ret
    /\ UNCHANGED <<known_hosts, next_token>>
    /\ UNCHANGED besidesHostKeys

\* apply_pending_mismatch: storage.upsert_ssh_known_host(..).await
ApplyUpsert(c) ==
    /\ hk_call[c].pc = "upsert"
    /\ known_hosts' = [known_hosts EXCEPT ![hk_call[c].host_port] =
                          hk_call[c].pending.presented]
    /\ hk_call' = [hk_call EXCEPT ![c].pc = "forget"]
    /\ UNCHANGED <<by_token, by_host_port, hk_ret, hk_calls, next_token>>
    /\ UNCHANGED besidesHostKeys

\* apply_pending_mismatch: the token is taken out of the store, Ok(()).
ApplyForget(c) ==
    /\ hk_call[c].pc = "forget"
    /\ LET token == hk_call[c].token
           current == by_token[token]
       IN  IF current = NoPending
           THEN UNCHANGED <<by_token, by_host_port>>
           ELSE /\ by_token' = [by_token EXCEPT ![token] = NoPending]
                /\ by_host_port' =
                       IF by_host_port[current.host_port] = token
                       THEN [by_host_port EXCEPT ![current.host_port] = NoToken]
                       ELSE by_host_port
    /\ HkReturn(c, "apply", hk_call[c].host_port, hk_call[c].pending.presented,
                hk_call[c].token, ResOk)
    /\ UNCHANGED <<known_hosts, hk_calls, next_token>>
    /\ UNCHANGED besidesHostKeys

\* PENDING_MISMATCH_TTL has passed since a mismatch was registered.
PendingExpires ==
    /\ \E t \in Tokens :
         /\ by_token[t] # NoPending
         /\ ~by_token[t].expired
         /\ by_token' = [by_token EXCEPT ![t].expired = TRUE]
    /\ UNCHANGED <<known_hosts, by_host_port, hk_call, hk_ret, hk_calls,
                   next_token>>
    /\ UNCHANGED besidesHostKeys

HostKeysStep(c) ==
    \/ CheckStart(c)
    \/ CheckGet(c)
    \/ CheckPin(c)
    \/ CheckMatch(c)
    \/ CheckMismatch(c)
    \/ ApplyLookup(c)
    \/ ApplyUpsert(c)
    \/ ApplyForget(c)

HostKeysNext == (\E c \in HkCallers : HostKeysStep(c)) \/ PendingExpires

SpecHostKeys == Init /\ [][HostKeysNext]_vars

(***************************************************************************)
(* The way of a rectangle through the read arm: rect_from_inclusive,       *)
(* frame_encode.rs, on the rect of a graphics update, the push, and the    *)
(* frame tick that merges, promotes, encodes and keeps or clears the set.  *)
(***************************************************************************)
MaxClipDirty == 2   \* rects pushed between two frame ticks

U16Max == 65535

\* Desktops: a small one, one without width, and the largest a u16 allows.
ClipDesktops == {<<3, 2>>, <<0, 2>>, <<U16Max, U16Max>>}

\* Coordinates (u16) along a side of n pixels: the first pixel, the last
\* one, the first one outside, and the largest number.
ClipCoords(n) == { c \in {0, n - 1, n, U16Max} : c >= 0 /\ c <= U16Max }

\* ironrdp_pdu::geometry::InclusiveRectangle
InclusiveRectangle(left, top, right_, bottom_) ==
    [left |-> left, top |-> top, right |-> right_, bottom |-> bottom_]

NoRect == [some |-> FALSE]
SomeRect(r) == [some |-> TRUE, rect |-> r]

\* Mutant of rect_from_inclusive: the right and bottom edges are not clamped.
rect_from_inclusive_NoClamp(rect, w, h) ==
    IF w = 0 \/ h = 0 THEN NoRect
    ELSE LET left == Min(rect.left, w - 1)
             top == Min(rect.top, h - 1)
         IN  IF rect.right < left \/ rect.bottom < top THEN NoRect
             ELSE SomeRect(FrameRect(left, top,
                                     WrapU16(rect.right - left + 1),
                                     WrapU16(rect.bottom - top + 1)))

\* rect_from_inclusive
rect_from_inclusive(rect, w, h) ==
    IF w = 0 \/ h = 0 THEN NoRect
    ELSE LET left == Min(rect.left, w - 1)
             top == Min(rect.top, h - 1)
             right_ == Min(rect.right, w - 1)
             bottom_ == Min(rect.bottom, h - 1)
         IN  IF right_ < left \/ bottom_ < top THEN NoRect
             ELSE SomeRect(FrameRect(left, top,
                                     WrapU16(right_ - left + 1),
                                     WrapU16(bottom_ - top + 1)))

RECURSIVE Encoded(_, _, _)
\* `for rect in &merged_rects`, from the i-th rect on: the rects a patch is
\* pushed for, ok[i] telling whether encode_rect gave data for the i-th.
Encoded(merged_rects, ok, i) ==
    IF i > Len(merged_rects) THEN << >>
    ELSE (IF ok[i] THEN <<merged_rects[i]>> ELSE << >>)
             \o Encoded(merged_rects, ok, i + 1)

\* The connection is established: the desktop size of connection_result.
ClipStart ==
    /\ ~clip.called
    /\ clip_width = 0 /\ clip_height = 0
    /\ \E d \in ClipDesktops :
         /\ clip_width' = d[1]
         /\ clip_height' = d[2]
         /\ clip' = [called |-> TRUE, op |-> "start"]
    /\ UNCHANGED clip_dirty
    /\ UNCHANGED besidesClip

\* ActiveStageOutput::GraphicsUpdate(rect): the rect is clipped and, where
\* there is one left, pushed.
ClipUpdate ==
    /\ clip.called
    /\ Len(clip_dirty) < MaxClipDirty
    /\ \E left \in ClipCoords(clip_width), right_ \in ClipCoords(clip_width),
          top \in ClipCoords(clip_height), bottom_ \in ClipCoords(clip_height) :
         LET rect == InclusiveRectangle(left, top, right_, bottom_)
             out == rect_from_inclusive(rect, clip_width, clip_height)
         IN  /\ clip_dirty' = IF out.some THEN Append(clip_dirty, out.rect)
                              ELSE clip_dirty
             /\ clip' = [called |-> TRUE, op |-> "update", rect |-> rect,
                         out |-> out]
    /\ UNCHANGED <<clip_width, clip_height>>
    /\ UNCHANGED besidesClip

\* The frame tick on the dirty set; `due` tells whether the keyframe
\* interval has passed.
ClipTick ==
    /\ clip.called
    /\ clip_dirty # << >>
    /\ \E due \in BOOLEAN :
         LET merged_all == merge_rects(clip_dirty)
             is_keyframe ==
                 \/ due
                 \/ should_emit_full_frame(merged_all, clip_width, clip_height,
                                           FULL_FRAME_THRESHOLD_PERCENT)
             merged_rects == IF is_keyframe
                             THEN <<full(clip_width, clip_height)>>
                             ELSE merged_all
         IN  \E ok \in [1 .. Len(merged_rects) -> BOOLEAN] :
               LET patches == Encoded(merged_rects, ok, 1)
               IN  /\ clip_dirty' = Requeued(patches, merged_rects)
                   /\ clip' = [called |-> TRUE, op |-> "tick",
                               merged |-> merged_all,
                               is_keyframe |-> is_keyframe,
                               patches |-> patches]
    /\ UNCHANGED <<clip_width, clip_height>>
    /\ UNCHANGED besidesClip

ClipNext == ClipStart \/ ClipUpdate \/ ClipTick

SpecClip == Init /\ [][ClipNext]_vars

(***************************************************************************)
(* The main loop of session_task.rs once more, now with every output of    *)
(* stage.process and every write to the transport as a step of its own.    *)
(* An output is known by the PDU (or the command) it was made for and its  *)
(* place in `outputs`.  The callers keep their sender, so recv() does not  *)
(* give None.                                                              *)
(***************************************************************************)
MaxOutPdus == 2      \* PDUs the server sends in a run
MaxOutputs == 3      \* outputs the adapter returns in a run
MaxOutCmds == 1      \* commands sent in a run

\* ActiveStageOutput, as far as the loop tells the variants apart; "other"
\* is any variant matched by `_ => {}`.
OutputKinds == {"resp", "gfx", "term", "deact", "other"}

\* What process_fastpath_input returns: ResponseFrames and other outputs.
InputOutputKinds == {"resp", "other"}

OutCommands == {"MouseEvent", "KeyEvent", "Close"}

\* The outputs of kinds `kinds` made in the arm `arm` for its n-th item.
OutputsOf(arm, n, kinds) ==
    [j \in 1 .. Len(kinds) |-> [kind |-> kinds[j], arm |-> arm, of |-> n, at |-> j]]

IsResponseFrame(o) == o.kind = "resp"

\* A write that went through, and one that failed after a part of the bytes.
Written(o) == [output |-> o, full |-> TRUE]
PartlyWritten(o) == [output |-> o, full |-> FALSE]

\* `let _ = event_tx.send(RdpEvent::Exit { reason }); return Ok(());`, and
\* a `?` that ends run_session_inner, after which run_session sends Exit.
\* What the locals held is left to be seen.
OutExit(reason) ==
    /\ out_pc' = "done"
    /\ out_events' = Append(out_events, ExitEvent(reason))

\* Mutant of OnResponseFrame: the write is not awaited, the loop goes on to
\* the next output.
OnResponseFrame_NotAwaited ==
    /\ out_outputs' = Tail(out_outputs)
    /\ UNCHANGED <<out_pc, out_events, out_dirty>>

\* ActiveStageOutput::ResponseFrame(bytes): the loop waits in write_all.
OnResponseFrame ==
    /\ out_pc' = "write"
    /\ UNCHANGED <<out_outputs, out_events, out_dirty>>

\* Mutant of OnTerminate: the Exit is sent and the loop goes on.
OnTerminate_GoesOn(reason) ==
    /\ out_events' = Append(out_events, ExitEvent(reason))
    /\ out_outputs' = Tail(out_outputs)
    /\ UNCHANGED <<out_pc, out_dirty>>

\* ActiveStageOutput::Terminate / DeactivateAll: Exit is sent and
\* run_session_inner returns.
OnTerminate(reason) ==
    /\ OutExit(reason)
    /\ UNCHANGED <<out_outputs, out_dirty>>

\* select!, branch `rd.read_buf(&mut buf)`: an error, n == 0, or bytes that
\* complete k more PDUs.
OutRead ==
    /\ out_pc = "select"
    /\ \E outcome \in {"error", "eof", "bytes"} :
         CASE outcome = "error" ->
                /\ OutExit(ReasonRead)
                /\ UNCHANGED out_pdus
           [] outcome = "eof" ->
                /\ OutExit(ReasonServerClosed)
                /\ UNCHANGED out_pdus
           [] outcome = "bytes" ->
                /\ \E k \in 0 .. (MaxOutPdus - out_npdus - out_pdus) :
                     out_pdus' = out_pdus + k
                /\ out_pc' = "while"
                /\ UNCHANGED out_events
    /\ UNCHANGED <<out_npdus, out_outputs, out_nout, out_made, out_wire,
                   out_cmd_q, out_ncmds, out_dirty>>
    /\ UNCHANGED besidesOut

\* `while let Some((action, size)) = find_pdu_size(&buf)` finds a PDU: it is
\* split off and given to stage.process.
OutProcess ==
    /\ out_pc = "while"
    /\ out_pdus > 0
    /\ out_pdus' = out_pdus - 1
    /\ out_npdus' = out_npdus + 1
    /\ \E ok \in BOOLEAN :
         IF ok
         THEN \E n \in 0 .. (MaxOutputs - out_nout) :
              \E kinds \in [1 .. n -> OutputKinds] :
                LET outputs == OutputsOf("read", out_npdus + 1, kinds)
                IN  /\ out_outputs' = outputs
                    /\ out_nout' = out_nout + n
                    /\ out_made' = out_made \o SelectSeq(outputs, IsResponseFrame)
                    /\ out_pc' = "for"
                    /\ UNCHANGED out_events
         ELSE /\ OutExit(ReasonProcessing)
              /\ UNCHANGED <<out_outputs, out_nout, out_made>>
    /\ UNCHANGED <<out_wire, out_cmd_q, out_ncmds, out_dirty>>
    /\ UNCHANGED besidesOut

\* One turn of `for output in outputs` of the read branch.
OutOutput ==
    /\ out_pc = "for"
    /\ IF out_outputs = << >>
       THEN /\ out_pc' = "while"
            /\ UNCHANGED <<out_outputs, out_events, out_dirty>>
       ELSE LET output == Head(out_outputs) IN
            CASE output.kind = "resp" -> OnResponseFrame
              [] output.kind = "gfx" ->
                   \* rect_from_inclusive gives Some(rect), pushed, or None
                   /\ \E some \in BOOLEAN : out_dirty' = (out_dirty \/ some)
                   /\ out_outputs' = Tail(out_outputs)
                   /\ UNCHANGED <<out_pc, out_events>>
              [] output.kind = "term" -> OnTerminate(ReasonTerminate)
              [] output.kind = "deact" -> OnTerminate(ReasonDeactivate)
              [] output.kind = "other" ->
                   /\ out_outputs' = Tail(out_outputs)
                   /\ UNCHANGED <<out_pc, out_events, out_dirty>>
    /\ UNCHANGED <<out_pdus, out_npdus, out_nout, out_made, out_wire, out_cmd_q,
                   out_ncmds>>
    /\ UNCHANGED besidesOut

\* `wr.write_all(&bytes).await?; wr.flush().await?` of the read branch: the
\* bytes are on the transport, or the write fails, maybe after a part of
\* them went out.
OutWrite ==
    /\ out_pc = "write"
    /\ LET output == Head(out_outputs) IN
       \E ok \in BOOLEAN, part \in BOOLEAN :
         IF ok
         THEN /\ out_wire' = Append(out_wire, Written(output))
              /\ out_outputs' = Tail(out_outputs)
              /\ out_pc' = "for"
              /\ UNCHANGED out_events
         ELSE /\ out_wire' = IF part THEN Append(out_wire, PartlyWritten(output))
                             ELSE out_wire
              /\ OutExit(ReasonWrite)
              /\ UNCHANGED out_outputs
    /\ UNCHANGED <<out_pdus, out_npdus, out_nout, out_made, out_cmd_q, out_ncmds,
                   out_dirty>>
    /\ UNCHANGED besidesOut

\* The end of the read branch when no complete PDU is left: the frame tick,
\* which sends a Frame when there are dirty rects, the interval has passed
\* and a patch could be encoded, and the way back to the select.
OutTick ==
    /\ out_pc = "while"
    /\ out_pdus = 0
    /\ \E elapsed \in BOOLEAN, patches_empty \in BOOLEAN :
         IF out_dirty /\ elapsed /\ ~patches_empty
         THEN /\ out_events' = Append(out_events, FrameEvent(0, FALSE))
              /\ out_dirty' = FALSE
         ELSE UNCHANGED <<out_events, out_dirty>>
    /\ out_pc' = "select"
    /\ UNCHANGED <<out_pdus, out_npdus, out_outputs, out_nout, out_made,
                   out_wire, out_cmd_q, out_ncmds>>
    /\ UNCHANGED besidesOut

\* A caller sends a command: send_mouse, send_key or close.
OutSend ==
    /\ out_pc # "done"
    /\ out_ncmds + Len(out_cmd_q) < MaxOutCmds
    /\ \E cmd \in OutCommands : out_cmd_q' = Append(out_cmd_q, cmd)
    /\ UNCHANGED <<out_pc, out_pdus, out_npdus, out_outputs, out_nout, out_made,
                   out_wire, out_ncmds, out_events, out_dirty>>
    /\ UNCHANGED besidesOut

\* select!, branch `cmd_rx.recv()`: Close ends the task; a mouse or key
\* event goes to process_fastpath_input, whose error is ignored.
OutRecv ==
    /\ out_pc = "select"
    /\ out_cmd_q # << >>
    /\ out_cmd_q' = Tail(out_cmd_q)
    /\ out_ncmds' = out_ncmds + 1
    /\ IF Head(out_cmd_q) = "Close"
       THEN /\ OutExit(ReasonUser)
            /\ UNCHANGED <<out_outputs, out_nout>>
       ELSE \E ok \in BOOLEAN :
              IF ok
              THEN \E n \in 0 .. (MaxOutputs - out_nout) :
                   \E kinds \in [1 .. n -> InputOutputKinds] :
                     /\ out_outputs' = OutputsOf("command", out_ncmds + 1, kinds)
                     /\ out_nout' = out_nout + n
                     /\ out_pc' = "cmd_for"
                     /\ UNCHANGED out_events
              ELSE UNCHANGED <<out_pc, out_outputs, out_nout, out_events>>
    /\ UNCHANGED <<out_pdus, out_npdus, out_made, out_wire, out_dirty>>
    /\ UNCHANGED besidesOut

\* One turn of `for output in outputs` of the command branch.
OutCmdOutput ==
    /\ out_pc = "cmd_for"
    /\ IF out_outputs = << >>
       THEN /\ out_pc' = "select"
            /\ UNCHANGED out_outputs
       ELSE IF Head(out_outputs).kind = "resp"
       THEN /\ out_pc' = "cmd_write"
            /\ UNCHANGED out_outputs
       ELSE /\ out_outputs' = Tail(out_outputs)
            /\ UNCHANGED out_pc
    /\ UNCHANGED <<out_pdus, out_npdus, out_nout, out_made, out_wire, out_cmd_q,
                   out_ncmds, out_events, out_dirty>>
    /\ UNCHANGED besidesOut

\* `wr.write_all(&bytes).await` of the command branch: on an error the task
\* returns without an Exit event; the result of the flush is not looked at.
OutCmdWrite ==
    /\ out_pc = "cmd_write"
    /\ LET output == Head(out_outputs) IN
       \E ok \in BOOLEAN, part \in BOOLEAN :
         IF ok
         THEN /\ out_wire' = Append(out_wire, Written(output))
              /\ out_outputs' = Tail(out_outputs)
              /\ out_pc' = "cmd_for"
         ELSE /\ out_wire' = IF part THEN Append(out_wire, PartlyWritten(output))
                             ELSE out_wire
              /\ out_pc' = "done"
              /\ UNCHANGED out_outputs
    /\ UNCHANGED <<out_pdus, out_npdus, out_nout, out_made, out_cmd_q,
                   out_ncmds, out_events, out_dirty>>
    /\ UNCHANGED besidesOut

OutNext ==
    \/ OutRead
    \/ OutProcess
    \/ OutOutput
    \/ OutWrite
    \/ OutTick
    \/ OutSend
    \/ OutRecv
    \/ OutCmdOutput
    \/ OutCmdWrite

SpecOutputs == Init /\ [][OutNext]_vars

(***************************************************************************)
(* The setup of run_session_inner as the bytes see it: the framed reader   *)
(* on the plain socket, the swap for the TLS stream, and the step from the *)
(* framed reader to the receive buffer of the main loop.  Every byte       *)
(* carries the stage in which it was read.  TokioFramed keeps what it has  *)
(* read and not handed on in its buffer; into_inner gives the stream and   *)
(* that buffer, new_with_leftover starts a reader with a given buffer.     *)
(***************************************************************************)
MaxHsBytes == 3      \* bytes the server sends in a run

HsByteValues == {1, 2}

HsByte(b, stage) == [byte |-> b, at |-> stage]

\* A byte handed on in a PDU: where it was read, and where it was handed on.
HsSeen(e, stage) == [byte |-> e.byte, at |-> e.at, by |-> stage]

\* TokioFramed::into_inner
into_inner(framed) == <<framed.stream, framed.buf>>

\* Mutant of new_with_leftover: the reader starts empty, as TokioFramed::new.
new_with_leftover_Dropped(stream, leftover) == Framed(stream, << >>)

\* TokioFramed::new_with_leftover
new_with_leftover(stream, leftover) == Framed(stream, leftover)

\* connect_begin or connect_finalize has the framed reader read from its
\* stream.
HsFramedRead ==
    /\ hs_stage \in {"begin", "finalize"}
    /\ Len(hs_read) < MaxHsBytes
    /\ \E b \in HsByteValues :
         /\ hs_framed' = Framed(hs_framed.stream,
                                Append(hs_framed.buf, HsByte(b, hs_stage)))
         /\ hs_read' = Append(hs_read, HsByte(b, hs_stage))
    /\ UNCHANGED <<hs_stage, hs_buf, hs_seen>>
    /\ UNCHANGED besidesHandover

\* connect_begin or connect_finalize takes a PDU of n bytes from the framed
\* reader.
HsFramedPdu ==
    /\ hs_stage \in {"begin", "finalize"}
    /\ hs_framed.buf # << >>
    /\ \E n \in 1 .. Len(hs_framed.buf) :
         /\ hs_seen' = hs_seen \o [j \in 1 .. n |-> HsSeen(hs_framed.buf[j], hs_stage)]
         /\ hs_framed' = Framed(hs_framed.stream,
                                SubSeq(hs_framed.buf, n + 1, Len(hs_framed.buf)))
    /\ UNCHANGED <<hs_stage, hs_buf, hs_read>>
    /\ UNCHANGED besidesHandover

\* The end of connect_begin and the TLS upgrade: an error of connect_begin,
\* of the upgrade check or of tls::upgrade ends the setup; otherwise the
\* socket is swapped for the TLS stream.
HsUpgrade ==
    /\ hs_stage = "begin"
    /\ \E outcome \in {"begin_error", "no_upgrade", "tls_error", "ok"} :
         IF outcome = "ok"
         THEN LET inner == into_inner(hs_framed)
              IN  /\ hs_framed' = new_with_leftover("tls", inner[2])
                  /\ hs_stage' = "finalize"
         ELSE /\ hs_stage' = "failed"
              /\ UNCHANGED hs_framed
    /\ UNCHANGED <<hs_buf, hs_read, hs_seen>>
    /\ UNCHANGED besidesHandover

\* The end of connect_finalize: an error ends the setup; otherwise the raw
\* stream is taken out of the framed reader and `buf = leftover`.
HsActive ==
    /\ hs_stage = "finalize"
    /\ \E ok \in BOOLEAN :
         IF ok
         THEN LET inner == into_inner(hs_framed)
              IN  /\ hs_buf' = inner[2]
                  /\ hs_framed' = NoFramed
                  /\ hs_stage' = "active"
         ELSE /\ hs_stage' = "failed"
              /\ UNCHANGED <<hs_framed, hs_buf>>
    /\ UNCHANGED <<hs_read, hs_seen>>
    /\ UNCHANGED besidesHandover

\* rd.read_buf(&mut buf) of the main loop gives a byte.
HsRead ==
    /\ hs_stage = "active"
    /\ Len(hs_read) < MaxHsBytes
    /\ \E b \in HsByteValues :
         /\ hs_buf' = Append(hs_buf, HsByte(b, hs_stage))
         /\ hs_read' = Append(hs_read, HsByte(b, hs_stage))
    /\ UNCHANGED <<hs_stage, hs_framed, hs_seen>>
    /\ UNCHANGED besidesHandover

\* buf.split_to(size): a PDU of n bytes goes to stage.process.
HsSplit ==
    /\ hs_stage = "active"
    /\ hs_buf # << >>
    /\ \E n \in 1 .. Len(hs_buf) :
         /\ hs_seen' = hs_seen \o [j \in 1 .. n |-> HsSeen(hs_buf[j], hs_stage)]
         /\ hs_buf' = SubSeq(hs_buf, n + 1, Len(hs_buf))
    /\ UNCHANGED <<hs_stage, hs_framed, hs_read>>
    /\ UNCHANGED besidesHandover

HandoverNext ==
    \/ HsFramedRead
    \/ HsFramedPdu
    \/ HsUpgrade
    \/ HsActive
    \/ HsRead
    \/ HsSplit

SpecHandover == Init /\ [][HandoverNext]_vars

(***************************************************************************)
(* The main loop as the clocks see it.  Times are in ms and are kept up to *)
(* a value above every frame interval, from where on they make no          *)
(* difference.  The time between the sending of a Frame and the            *)
(* `last_frame_time = Instant::now()` after it is taken as nothing, which  *)
(* is the shortest it can be.                                              *)
(***************************************************************************)
PaceSteps == {17, 33}

\* One more than the longest frame interval.
PaceCap == FRAME_INTERVAL_LEVELS[Len(FRAME_INTERVAL_LEVELS)] + 1

Elapse(t, ms) == IF t = NoFrame THEN NoFrame ELSE Min(t + ms, PaceCap)

\* Mutant of TickDue: the interval is not waited for.
TickDue_NoWait(dirty, elapsed_ms, frame_interval_ms) == dirty

\* `!dirty_rects.is_empty() && last_frame_time.elapsed().as_millis() >=
\* u128::from(frame_interval_ms)`
TickDue(dirty, elapsed_ms, frame_interval_ms) ==
    dirty /\ elapsed_ms >= frame_interval_ms

\* The levels the controller can leave a tick at.
LevelsAfter(idx) ==
    {idx, Coarser(idx, JPEG_QUALITY_MAX).idx, Finer(idx, JPEG_QUALITY_MAX).idx}

Turn(step, frame, dirty, elapsed, interval, gap) ==
    [step |-> step, frame |-> frame, dirty |-> dirty, elapsed |-> elapsed,
     interval |-> interval, gap |-> gap]

\* Time passes.
PaceClock ==
    /\ pace_pc = "loop"
    /\ \E ms \in PaceSteps :
         /\ pace_since_tick' = Elapse(pace_since_tick, ms)
         /\ pace_since_frame' = Elapse(pace_since_frame, ms)
         /\ pace_last' = Turn("clock", FALSE, pace_dirty, pace_since_tick, 0,
                              pace_since_frame)
    /\ \/ pace_since_tick' # pace_since_tick
       \/ pace_since_frame' # pace_since_frame
    /\ UNCHANGED <<pace_pc, pace_idx, pace_dirty>>
    /\ UNCHANGED besidesPace

\* select!, branch `rd.read_buf(&mut buf)`: an error or n == 0 ends the
\* task.  Otherwise the PDUs in the buffer are processed, which may push
\* rects, and the frame tick follows: when it is due it encodes, sends a
\* Frame unless no patch could be made, lets the controller choose the
\* level and sets last_frame_time.
PaceRead ==
    /\ pace_pc = "loop"
    /\ \E n \in {0, 1}, pushed \in BOOLEAN, patches_empty \in BOOLEAN :
         IF n = 0
         THEN /\ pace_pc' = "done"
              /\ pace_last' = Turn("read_end", FALSE, pace_dirty, pace_since_tick,
                                   0, pace_since_frame)
              /\ UNCHANGED <<pace_idx, pace_dirty, pace_since_tick,
                             pace_since_frame>>
         ELSE LET dirty == pace_dirty \/ pushed
                  frame_interval_ms == FRAME_INTERVAL_LEVELS[pace_idx + 1]
                  due == TickDue(dirty, pace_since_tick, frame_interval_ms)
                  frame == due /\ ~patches_empty
              IN  /\ pace_dirty' = IF due THEN patches_empty ELSE dirty
                  /\ IF due THEN pace_idx' \in LevelsAfter(pace_idx)
                            ELSE pace_idx' = pace_idx
                  /\ pace_since_tick' = IF due THEN 0 ELSE pace_since_tick
                  /\ pace_since_frame' = IF frame THEN 0 ELSE pace_since_frame
                  /\ pace_last' = Turn("read", frame, dirty, pace_since_tick,
                                       frame_interval_ms, pace_since_frame)
                  /\ UNCHANGED pace_pc
    /\ UNCHANGED besidesPace

\* select!, branch `cmd_rx.recv()`: a mouse or key event is handled, or
\* Close ends the task.
PaceCommand ==
    /\ pace_pc = "loop"
    /\ \E cmd \in OutCommands :
         /\ pace_pc' = IF cmd = "Close" THEN "done" ELSE "loop"
         /\ pace_last' = Turn(cmd, FALSE, pace_dirty, pace_since_tick, 0,
                              pace_since_frame)
    /\ UNCHANGED <<pace_idx, pace_dirty, pace_since_tick, pace_since_frame>>
    /\ UNCHANGED besidesPace

PaceNext == PaceClock \/ PaceRead \/ PaceCommand

SpecPace == Init /\ [][PaceNext]_vars

(***************************************************************************)
(* Helpers of the properties.                                              *)
(***************************************************************************)
IsFrame(e) == e.type = "Frame"
IsExit(e) == e.type = "Exit"
IsMouse(cmd) == cmd.kind = "MouseEvent"

FramesOf(id) == SelectSeq(events[id], IsFrame)
MouseCmdsOf(id) == SelectSeq(cmd_log[id], IsMouse)
LastEvent(id) == events[id][Len(events[id])]

\* The task of id has ended and was not told to: no Close was observed.
SelfTerminated(id) ==
    /\ pc[id] = "done"
    /\ events[id] # << >> => LastEvent(id).reason # ReasonUser

FinalizeFailed(id) ==
    /\ pc[id] = "done"
    /\ events[id] = <<ExitEvent(ReasonFinalize)>>

\* In this step caller c returns from the operation it is in at position p.
Returns(c, p) == caller[c].pc = p /\ caller'[c].pc = "idle"

\* In this step caller c removes id from the registry (close).
Removes(c, id) ==
    /\ caller[c].pc = "idle"
    /\ caller'[c].pc = "close_send"
    /\ caller'[c].id = id

(***************************************************************************)
(* C1.  The frames a session emits carry seq 0, 1, 2, ... in emission      *)
(* order, and frame_seq counts exactly the emitted frames: a tick that     *)
(* emits nothing consumes no number.                                       *)
(***************************************************************************)
C1_FrameSeqConsecutive ==
    \A id \in SessionIds :
        /\ \A i \in 1..Len(FramesOf(id)) : FramesOf(id)[i].seq = i - 1
        /\ frame_seq[id] = Len(FramesOf(id))

\* Two frames are out and the loop is back at its select.
C1_Witness ==
    \E id \in SessionIds :
        /\ Len(FramesOf(id)) = 2
        /\ FramesOf(id)[2].seq = 1
        /\ pc[id] = "select"

(***************************************************************************)
(* C2.  At most one Exit is sent on a session's event channel and nothing  *)
(* is sent after it: an Exit can only be the last event.                   *)
(***************************************************************************)
C2_ExitIsLast ==
    \A id \in SessionIds :
        \A i \in 1..Len(events[id]) :
            IsExit(events[id][i]) => i = Len(events[id])

\* A frame went out, then the session ended with an Exit.
C2_Witness ==
    \E id \in SessionIds :
        /\ pc[id] = "done"
        /\ Len(events[id]) >= 2
        /\ IsFrame(events[id][1])
        /\ IsExit(LastEvent(id))

(***************************************************************************)
(* C3.  Every task that stops after it has entered the active loop has     *)
(* reported an Exit event: when it has ended, the last event is an Exit.   *)
(***************************************************************************)
C3_EveryStopReported ==
    \A id \in SessionIds :
        (pc[id] = "done" /\ wasActive[id]) =>
            (events[id] # << >> /\ IsExit(LastEvent(id)))

(***************************************************************************)
(* C4.  The lifecycle only moves Connecting -> Active -> Closed.  A step   *)
(* from Connecting to Closed is a setup failure: it leaves exactly one     *)
(* event, an Exit with a setup reason, after a single connection attempt.  *)
(* A Closed session stays Closed, sends nothing and connects no more.      *)
(***************************************************************************)
C4_Step ==
    \A id \in SessionIds :
        /\ Lifecycle(id)' # Lifecycle(id) =>
             <<Lifecycle(id), Lifecycle(id)'>> \in
                 {<<"None", "Connecting">>, <<"Connecting", "Active">>,
                  <<"Connecting", "Closed">>, <<"Active", "Closed">>}
        /\ (Lifecycle(id) = "Connecting" /\ Lifecycle(id)' = "Closed") =>
             /\ \E r \in SetupReasons : events'[id] = <<ExitEvent(r)>>
             /\ ~wasActive'[id]
        /\ Lifecycle(id) = "Closed" =>
             /\ events'[id] = events[id]
             /\ connects'[id] = connects[id]
        /\ connects'[id] <= 1

C4_LifecycleForward == [][C4_Step]_vars

\* A setup failure has happened: Closed, never Active, one Exit.
C4_Witness ==
    \E id \in SessionIds :
        /\ pc[id] = "done"
        /\ ~wasActive[id]
        /\ Len(events[id]) = 1
        /\ connects[id] = 1

(***************************************************************************)
(* C5.  open_session never waits for the task: its last step can be taken  *)
(* wherever the task is.  When it returns, the result is Ok and the id is  *)
(* in the registry, also when the connection has already failed.           *)
(***************************************************************************)
C5_Step ==
    \A c \in Callers :
        /\ caller[c].pc = "open_insert" => ENABLED OpenInsert(c)
        /\ Returns(c, "open_insert") =>
             /\ ret' = [caller |-> c, op |-> "open_session",
                        id |-> caller[c].id, res |-> ResOk]
             /\ caller[c].id \in DOMAIN sessions'

C5_OpenNeverWaits == [][C5_Step]_vars

\* open_session has returned Ok while the task is still Connecting.
C5_Witness ==
    /\ ret.op = "open_session"
    /\ ret.res = ResOk
    /\ ret.id \in DOMAIN sessions
    /\ pc[ret.id] \in SetupPcs

(***************************************************************************)
(* C6.  In the order the commands were queued, every MouseEvent carries    *)
(* as prev_buttons the buttons of the MouseEvent queued before it, and 0   *)
(* if there is none.                                                       *)
(***************************************************************************)
C6_MouseOrderPreserved ==
    \A id \in SessionIds :
        \A i \in 1..Len(MouseCmdsOf(id)) :
            MouseCmdsOf(id)[i].prev_buttons =
                IF i = 1 THEN 0 ELSE MouseCmdsOf(id)[i - 1].buttons

(***************************************************************************)
(* C7.  No MouseEvent or KeyEvent is queued on a session's command channel *)
(* behind the Close command.                                               *)
(***************************************************************************)
C7_NothingQueuedAfterClose ==
    \A id \in SessionIds :
        \A i \in 1..Len(cmd_log[id]) :
            cmd_log[id][i].kind = "Close" => i = Len(cmd_log[id])

(***************************************************************************)
(* C8.  close returns Ok when its wait ends, by join or by timeout, and    *)
(* the return leaves the task where it is and as it is (no abort).  The    *)
(* Exit "closed by user" is sent only from the select of the active loop:  *)
(* a Close queued while the task is Connecting or inside a write is not    *)
(* acted on there.                                                         *)
(***************************************************************************)
C8_Step ==
    /\ \A c \in Callers :
         Returns(c, "close_wait") =>
            /\ ret' = [caller |-> c, op |-> "close", id |-> caller[c].id, res |-> ResOk]
            /\ pc' = pc
            /\ events' = events
            /\ cmd_q' = cmd_q
    /\ \A id \in SessionIds :
         (events'[id] # events[id] /\ events'[id][Len(events'[id])].reason = ReasonUser)
            => pc[id] = "select"

C8_CloseIsCooperative == [][C8_Step]_vars

\* close has returned and the task, not in the registry any more, is still
\* in a socket write with the Close command waiting in its queue.
C8_Witness ==
    /\ ret.op = "close"
    /\ ret.res = ResOk
    /\ ret.id \notin DOMAIN sessions
    /\ \A c \in Callers : caller[c].pc = "idle"
    /\ pc[ret.id] \in {"resp_write", "input_write"}
    /\ cmd_q[ret.id] # << >>
    /\ Head(cmd_q[ret.id]).kind = "Close"

C9_Step ==
    /\ \A id \in SessionIds :
         /\ pc'[id] # pc[id] => sessions' = sessions
         /\ (id \in DOMAIN sessions /\ id \notin DOMAIN sessions') =>
              \E c \in Callers : Removes(c, id)
    /\ \A c \in Callers :
         /\ ((Returns(c, "mouse_send") \/ Returns(c, "key_send")) /\ pc[caller[c].id] = "done") =>
              /\ ret'.res = ErrChannelClosed
              /\ ret'.id = caller[c].id
              /\ cmd_log' = cmd_log
              /\ cmd_q' = cmd_q
    /\ (ncalls' # ncalls /\ caller' = caller) =>
         (ret'.res = ErrUnknown /\ ret'.id \notin DOMAIN sessions)

C10_Step ==
    \A id \in SessionIds :
        /\ (pc[id] = "finalize" /\ pc'[id] = "done") =>
             /\ sessions' = sessions
             /\ events'[id] = <<ExitEvent(ReasonFinalize)>>
             /\ ~wasActive'[id]
        /\ FinalizeFailed(id) =>
             /\ \A c \in Callers :
                  (Returns(c, "open_insert") /\ caller[c].id = id) =>
                      (id \in DOMAIN sessions' /\ ret'.res = ResOk)
             /\ (id \in DOMAIN sessions /\ id \notin DOMAIN sessions') =>
                  \E c \in Callers : Removes(c, id)
             /\ pc'[id] = "done"

C11_Step ==
    \A c \in Callers :
        (caller[c].pc = "idle" /\ ncalls' # ncalls) =>
            /\ (caller' = caller /\ ret'.caller = c) =>
                 /\ ret'.res = ErrUnknown
                 /\ ret'.op \in {"send_mouse", "send_key", "close"}
                 /\ ret'.id \notin DOMAIN sessions
                 /\ sessions' = sessions
                 /\ cmd_q' = cmd_q
                 /\ cmd_log' = cmd_log
            /\ caller'[c].pc # "idle" => caller'[c].id \in DOMAIN sessions

C11_UnknownSessionNoEffect == [][C11_Step]_vars

\* A close with an id that is not registered has come back with "unknown
\* session" while another session, whose last_buttons is 1, is registered.
C11_Witness ==
    /\ ret.res = ErrUnknown
    /\ ret.op = "close"
    /\ ret.id \notin DOMAIN sessions
    /\ \E id \in DOMAIN sessions : id # ret.id /\ sessions[id].last_buttons = 1

(***************************************************************************)
(* C12.  A session whose server sent graphics updates right after it       *)
(* became Active, and then closed the connection, has put a Frame on the   *)
(* event channel before the Exit "Server closed connection": the Exit is   *)
(* never sent while the first updates are still waiting in dirty_rects     *)
(* and no Frame has gone out.                                              *)
(***************************************************************************)
C12_Step ==
    \A id \in SessionIds :
        (/\ events'[id] = Append(events[id], ExitEvent(ReasonServerClosed))
         /\ dirty_rects[id]) =>
            FramesOf(id) # << >>

C12_FrameBeforeServerClosedExit == [][C12_Step]_vars

(***************************************************************************)
(* Helpers of the framer properties.                                       *)
(***************************************************************************)
RECURSIVE Flatten(_)
\* The bytes of a sequence of PDUs, one after the other.
Flatten(ps) ==
    IF ps = << >> THEN << >> ELSE Head(ps).bytes \o Flatten(Tail(ps))

RECURSIVE Frames(_)
\* The PDUs at the head of b, taken off in one go.
Frames(b) ==
    LET r == find_pdu_size(b) IN
    IF r.some /\ r.size >= 1
    THEN <<[action |-> r.action, bytes |-> SubSeq(b, 1, r.size)]>>
             \o Frames(SubSeq(b, r.size + 1, Len(b)))
    ELSE << >>

\* The length field of the header at the head of b can be read.
LengthKnown(b) ==
    /\ Len(b) >= 2
    /\ b[1] = 3 => Len(b) >= 4
    /\ (b[1] # 3 /\ b[2] >= 128) => Len(b) >= 3

\* The length the header at the head of b declares, and the size of that
\* header (4 bytes legacy, 2 or 3 bytes fast-path).
DeclaredLength(b) ==
    IF b[1] = 3 THEN b[3] * 256 + b[4]
    ELSE IF b[2] < 128 THEN b[2]
    ELSE (b[2] - 128) * 256 + b[3]

HeaderSize(b) == IF b[1] = 3 THEN 4 ELSE IF b[2] < 128 THEN 2 ELSE 3

MalformedHead(b) == LengthKnown(b) /\ DeclaredLength(b) < HeaderSize(b)

(***************************************************************************)
(* C13.  The session never goes back to wait at the select with a          *)
(* malformed PDU at the head of its receive buffer, that is a header that  *)
(* declares length zero or a length shorter than the header itself: such   *)
(* a PDU has ended the session.                                            *)
(***************************************************************************)
C13_MalformedHeadIsFatal ==
    \A id \in SessionIds :
        (found.called /\ pc[id] = "select") => ~MalformedHead(buf)

(***************************************************************************)
(* C14.  After every step of the read arm the PDUs given to the adapter,   *)
(* in order, followed by the residual buffer are the bytes received so     *)
(* far; an extraction takes the family and exactly the size find_pdu_size  *)
(* reported off the head of the buffer and leaves a shorter buffer; and    *)
(* when the extraction loop is left the PDUs are those of the received     *)
(* bytes taken in one go, whatever the split into reads was.               *)
(***************************************************************************)
C14_Step ==
    /\ Flatten(pdus') \o buf' = rx'
    /\ Len(pdus') > Len(pdus) =>
         /\ found'.res.some
         /\ found'.arg = buf
         /\ pdus' = Append(pdus, [action |-> found'.res.action,
                                  bytes |-> SubSeq(buf, 1, found'.res.size)])
         /\ buf = SubSeq(buf, 1, found'.res.size) \o buf'
         /\ Len(buf') < Len(buf)
    /\ \A id \in SessionIds :
         (pc[id] = "process" /\ pc'[id] = "select") =>
             /\ pdus' = Frames(rx')
             /\ find_pdu_size(buf') = None

C14_SplitIndependentFraming == [][C14_Step]_vars

\* Five bytes have been received, two fast-path PDUs of two bytes each have
\* been given to the adapter, the fifth byte waits in the buffer and the
\* loop is back at the select.
C14_Witness ==
    /\ Len(rx) = 5
    /\ Len(pdus) = 2
    /\ \A i \in 1..2 : pdus[i].action = ActionFastPath /\ Len(pdus[i].bytes) = 2
    /\ Len(buf) = 1
    /\ found.called /\ found.res = None
    /\ \A id \in SessionIds : pc[id] = "select"

(***************************************************************************)
(* C15 as stated.  For a buffer that starts with 0x03 and holds the length *)
(* field L, find_pdu_size reports (X224, L) if and only if the buffer      *)
(* holds at least L bytes.                                                 *)
(***************************************************************************)
C15_CompleteIffEnoughBytes ==
    (found.called /\ Len(found.arg) >= 4 /\ found.arg[1] = 3) =>
        LET L == found.arg[3] * 256 + found.arg[4] IN
        (found.res = Some(ActionX224, L)) <=> (Len(found.arg) >= L)

(***************************************************************************)
(* C15, amended.  For a buffer that starts with 0x03: with fewer than 4    *)
(* bytes the result is incomplete; with the length field L it is           *)
(* (X224, L) if L >= 1 and the buffer holds at least L bytes, and          *)
(* incomplete otherwise.                                                   *)
(***************************************************************************)
C15_CompleteIffNonZeroAndEnoughBytes ==
    (found.called /\ Len(found.arg) >= 2 /\ found.arg[1] = 3) =>
        IF Len(found.arg) < 4 THEN found.res = None
        ELSE LET L == found.arg[3] * 256 + found.arg[4] IN
             found.res = IF L >= 1 /\ Len(found.arg) >= L
                         THEN Some(ActionX224, L) ELSE None

\* find_pdu_size was called on 03 00 00 04 and a fifth byte: complete.
C15_Witness ==
    /\ found.called
    /\ Len(found.arg) = 5
    /\ found.arg[1] = 3 /\ found.arg[3] = 0 /\ found.arg[4] = 4
    /\ found.res = Some(ActionX224, 4)

(***************************************************************************)
(* C16.  find_pdu_size never reports a PDU of size 0: a reported size is   *)
(* at least 1 and at most the length of the buffer, and a header of        *)
(* either family that declares length zero gives incomplete.               *)
(***************************************************************************)
C16_NoZeroLengthPdu ==
    found.called =>
        /\ found.res.some =>
             (found.res.size >= 1 /\ found.res.size <= Len(found.arg))
        /\ (LengthKnown(found.arg) /\ DeclaredLength(found.arg) = 0) =>
             found.res = None

\* find_pdu_size was called on five bytes with a legacy header that
\* declares length zero, and on its last call answered incomplete.
C16_Witness ==
    /\ found.called
    /\ Len(found.arg) = 5
    /\ found.arg[1] = 3 /\ found.arg[3] = 0 /\ found.arg[4] = 0
    /\ found.res = None

(***************************************************************************)
(* C17.  For a buffer of two bytes or more that does not start with 0x03:  *)
(* if the high bit of the second byte is clear the length is that byte;    *)
(* if it is set the result is incomplete with fewer than 3 bytes and the   *)
(* length is the low 7 bits of the second byte times 256 plus the third    *)
(* byte; the result is (FastPath, length) exactly when the length is >= 1  *)
(* and the buffer holds that many bytes, incomplete otherwise.             *)
(***************************************************************************)
C17_FastPathLength ==
    (found.called /\ Len(found.arg) >= 2 /\ found.arg[1] # 3) =>
        LET b == found.arg
            Complete(L) == IF L >= 1 /\ Len(b) >= L
                           THEN Some(ActionFastPath, L) ELSE None
        IN  IF b[2] < 128 THEN found.res = Complete(b[2])
            ELSE IF Len(b) < 3 THEN found.res = None
            ELSE found.res = Complete((b[2] - 128) * 256 + b[3])

\* find_pdu_size was called on a fast-path buffer with the two-byte length
\* 0x80 0x03 and reported three bytes.
C17_Witness ==
    /\ found.called
    /\ found.arg[1] # 3
    /\ Len(found.arg) >= 3
    /\ found.arg[2] = 128 /\ found.arg[3] = 3
    /\ found.res = Some(ActionFastPath, 3)

(***************************************************************************)
(* Helpers of the rectangle properties.                                    *)
(***************************************************************************)
\* The pixels of a and b overlap, or lie next to each other with no pixel
\* between them (side by side or corner to corner).
Touching(a, b) ==
    /\ a.x <= b.x + b.width
    /\ b.x <= a.x + a.width
    /\ a.y <= b.y + b.height
    /\ b.y <= a.y + a.height

\* Every pixel of a is a pixel of b.
ContainedIn(a, b) ==
    /\ b.x <= a.x
    /\ b.y <= a.y
    /\ a.x + a.width <= b.x + b.width
    /\ a.y + a.height <= b.y + b.height

Range(seq) == { seq[k] : k \in DOMAIN seq }

\* a and b hold the same rectangles, each as often, in any order.
IsPermutation(a, b) ==
    /\ Len(a) = Len(b)
    /\ \A r \in Range(a) \cup Range(b) :
         Cardinality({k \in DOMAIN a : a[k] = r}) =
         Cardinality({k \in DOMAIN b : b[k] = r})

(***************************************************************************)
(* C18.  A call of merge_rects comes back, after at most one turn of its   *)
(* outer loop per rectangle, with a list in which no two rectangles        *)
(* overlap or touch (corner contact included) and in which every           *)
(* rectangle of the input lies inside some rectangle; {0,0,10,10} with     *)
(* {10,0,10,10} gives the one rectangle {0,0,20,10}, and {0,0,10,10} with  *)
(* {30,30,5,5} stays as it is.                                             *)
(***************************************************************************)
C18_MergedRectsDisjoint ==
    merged.called =>
        /\ \A i, j \in DOMAIN merged.out :
             i # j => ~Touching(merged.out[i], merged.out[j])
        /\ \A k \in DOMAIN merged.arg :
             \E i \in DOMAIN merged.out : ContainedIn(merged.arg[k], merged.out[i])
        /\ merged.passes <= Len(merged.arg)
        /\ merged.arg = <<FrameRect(0, 0, 10, 10), FrameRect(10, 0, 10, 10)>> =>
             merged.out = <<FrameRect(0, 0, 20, 10)>>
        /\ merged.arg = <<FrameRect(0, 0, 10, 10), FrameRect(30, 30, 5, 5)>> =>
             merged.out = merged.arg

\* merge_rects was given three rectangles of which the second touches only
\* the union of the other two: a second turn of the outer loop merged it.
C18_Witness ==
    /\ merged.called
    /\ Len(merged.arg) = 3
    /\ ~Touching(merged.arg[1], merged.arg[2])
    /\ Touching(merged.arg[1], merged.arg[3])
    /\ merged.passes = 3
    /\ Len(merged.out) = 1

(***************************************************************************)
(* C19.  A call of merge_rects on the list the previous call returned      *)
(* returns that list; a call on a reordering of the list the previous      *)
(* call was given returns the same set of rectangles.                      *)
(***************************************************************************)
C19_Step ==
    (merged.called /\ merged'.called) =>
        /\ merged'.arg = merged.out => merged'.out = merged.out
        /\ IsPermutation(merged'.arg, merged.arg) =>
             Range(merged'.out) = Range(merged.out)

C19_MergeIdempotentOrderFree == [][C19_Step]_vars

\* merge_rects was called on a reordering of three rectangles whose first
\* two do not touch, and all three came back as one.
C19_Witness ==
    /\ merged.called
    /\ merged.via = "permuted"
    /\ Len(merged.arg) = 3
    /\ ~Touching(merged.arg[1], merged.arg[2])
    /\ merged.passes >= 2
    /\ Len(merged.out) = 1

(***************************************************************************)
(* Helpers of the threshold property.                                      *)
(***************************************************************************)
RECURSIVE SumOfAreas(_)
\* The sum of the areas of rs, exactly.
SumOfAreas(rs) ==
    IF rs = << >> THEN Wide(0, 0)
    ELSE WideAdd(MulU16(Head(rs).width, Head(rs).height), SumOfAreas(Tail(rs)))

(***************************************************************************)
(* C20.  A call of should_emit_full_frame returns false for an empty list  *)
(* or a desktop dimension of zero, and otherwise returns true exactly when *)
(* (sum of the rect areas) * 100 >= desktop_width * desktop_height *       *)
(* threshold_percent in exact integer arithmetic.                          *)
(***************************************************************************)
C20_FullFrameThresholdExact ==
    ff_ret.called =>
        ff_ret.ret =
            IF ff_rects = << >> \/ desktop_width = 0 \/ desktop_height = 0
            THEN FALSE
            ELSE WideGeq(WideMul(SumOfAreas(ff_rects), 100),
                         WideMul(MulU16(desktop_width, desktop_height),
                                 threshold_percent))

(***************************************************************************)
(* Helpers of the properties of the frame tick.                            *)
(***************************************************************************)
\* The step is a frame tick: every tick moves one of the streaks.
TickTaken ==
    \/ tick' # tick
    \/ over_budget_streak' # over_budget_streak
    \/ under_budget_streak' # under_budget_streak

\* The frame interval in force, in ms.
IntervalMs == FRAME_INTERVAL_LEVELS[frame_interval_idx + 1]

\* The tick of this step took longer than the interval in force before it.
OverBudgetTick == tick'.encode_ms > IntervalMs

\* The level next to ms on the coarse side, and on the fine side.
NextCoarser(ms) ==
    IF ms = 33 THEN 40 ELSE IF ms = 40 THEN 50 ELSE 66
NextFiner(ms) ==
    IF ms = 66 THEN 50 ELSE IF ms = 50 THEN 40 ELSE 33

(***************************************************************************)
(* C21.  The third frame tick in a row whose encode time is above the      *)
(* interval in force moves the level one step coarser unless it is 66 ms   *)
(* already, lowers the JPEG quality by 5 but not below 75, and resets the  *)
(* over-budget streak to 0; the first and the second such tick change      *)
(* neither level nor quality; a tick within budget resets the over-budget  *)
(* streak to 0.                                                            *)
(***************************************************************************)
C21_OverBudgetStepsCoarser ==
    [][TickTaken =>
         /\ (OverBudgetTick /\ over_budget_streak = 2) =>
               /\ IntervalMs' = NextCoarser(IntervalMs)
               /\ jpeg_quality' = Max(jpeg_quality - 5, 75)
               /\ over_budget_streak' = 0
         /\ (OverBudgetTick /\ over_budget_streak < 2) =>
               /\ IntervalMs' = IntervalMs
               /\ jpeg_quality' = jpeg_quality
               /\ over_budget_streak' = over_budget_streak + 1
         /\ ~OverBudgetTick => over_budget_streak' = 0]_vars

\* The level was 66 ms and the quality 77 or 75, and a third over-budget tick
\* in a row has left them at 66 ms and 75.
C21_Witness ==
    /\ tick.called
    /\ tick.encode_ms = 67
    /\ IntervalMs = 66
    /\ jpeg_quality = 75
    /\ over_budget_streak = 0
    /\ under_budget_streak = 0

(***************************************************************************)
(* C22.  The twentieth frame tick in a row whose encode time is within the *)
(* interval in force moves the level one step finer unless it is 33 ms     *)
(* already, raises the JPEG quality by 3 but not above 92, and resets the  *)
(* under-budget streak to 0; the nineteen such ticks before it change      *)
(* neither level nor quality; an over-budget tick resets the under-budget  *)
(* streak to 0.                                                            *)
(***************************************************************************)
C22_UnderBudgetStepsFiner ==
    [][TickTaken =>
         /\ (~OverBudgetTick /\ under_budget_streak = 19) =>
               /\ IntervalMs' = NextFiner(IntervalMs)
               /\ jpeg_quality' = Min(jpeg_quality + 3, 92)
               /\ under_budget_streak' = 0
         /\ (~OverBudgetTick /\ under_budget_streak < 19) =>
               /\ IntervalMs' = IntervalMs
               /\ jpeg_quality' = jpeg_quality
               /\ under_budget_streak' = under_budget_streak + 1
         /\ OverBudgetTick => under_budget_streak' = 0]_vars

\* The level is back at 33 ms with the quality at 90: a step coarser to
\* 40 ms and 87, then twenty ticks within budget.
C22_Witness ==
    /\ tick.called
    /\ tick.encode_ms <= 40
    /\ IntervalMs = 33
    /\ jpeg_quality = 90
    /\ under_budget_streak = 0
    /\ over_budget_streak = 0

\* The merged dirty area of this step's tick is at least 45% of the desktop,
\* in exact arithmetic.
LargeDirtyArea ==
    WideGeq(WideMul(SumOfAreas(merge_rects(pending_rects)), 100),
            WideMul(MulU16(tick_width, tick_height), 45))

\* The patches are the one patch of the whole desktop.
IsFullDesktop(patches) ==
    /\ Len(patches) = 1
    /\ patches[1].x = 0
    /\ patches[1].y = 0
    /\ patches[1].width = tick_width
    /\ patches[1].height = tick_height

(***************************************************************************)
(* C28.  A frame tick marks its frame as a keyframe if and only if 2000 ms *)
(* or more have passed since the keyframe timer was reset or the merged    *)
(* dirty area is at least 45% of the desktop area; an emitted keyframe has *)
(* exactly one patch, that of the whole desktop; an emitted frame that is  *)
(* not a keyframe has a merged dirty area below 45% of the desktop.        *)
(***************************************************************************)
C28_KeyframeIffDueOrLargeArea ==
    [][TickTaken =>
         /\ tick'.is_keyframe <=> (keyframe_elapsed >= 2000 \/ LargeDirtyArea)
         /\ (tick'.patches # << >> /\ tick'.is_keyframe) =>
                IsFullDesktop(tick'.patches)
         /\ (tick'.patches # << >> /\ ~tick'.is_keyframe) =>
                ~LargeDirtyArea]_vars

(***************************************************************************)
(* C29.  The keyframe timer is reset only by a tick that emits a frame     *)
(* with is_keyframe = true, not by one that emits another frame or none;   *)
(* so a frame emitted once 2000 ms have passed since the timer was reset   *)
(* is a keyframe.                                                          *)
(***************************************************************************)
C29_KeyframeTimerResetOnlyByKeyframe ==
    [][/\ keyframe_elapsed' < keyframe_elapsed =>
              /\ TickTaken
              /\ tick'.is_keyframe
              /\ tick'.patches # << >>
       /\ (TickTaken /\ keyframe_elapsed >= 2000 /\ tick'.patches # << >>) =>
              tick'.is_keyframe]_vars

\* A tick found the timer at 2000 ms, with 100x200 of the 10000x10000
\* desktop dirty, and emitted a keyframe, which has reset the timer.
C29_Witness ==
    /\ tick.called
    /\ tick.elapsed >= 2000
    /\ tick.is_keyframe
    /\ tick.patches # << >>
    /\ tick_width = 10000
    /\ keyframe_elapsed = 0
    /\ pending_rects = << >>

(***************************************************************************)
(* Helpers of the properties of encode_rect.                               *)
(***************************************************************************)
\* The rect has a pixel and lies inside the image.
InsideImage(rect) ==
    /\ rect.width >= 1
    /\ rect.height >= 1
    /\ rect.x + rect.width <= image.width
    /\ rect.y + rect.height <= image.height

\* Where the formats keep red, green, blue and alpha in the four bytes of a
\* pixel: RgbA32 is R G B A, BgrA32 is B G R A.
ChannelOffset(format, c) ==
    IF format = PixelFormatRgbA32 THEN c - 1
    ELSE IF c = 1 THEN 2 ELSE IF c = 3 THEN 0 ELSE c - 1

\* Channel c (1 red, 2 green, 3 blue, 4 alpha) of the pixel (px, py) of the
\* image.
SourceChannel(px, py, c) ==
    DataAt(image, (py * image.width + px) * 4
                      + ChannelOffset(image.pixel_format, c))

(***************************************************************************)
(* C26.  For a rect inside the decoded image the Raw patch data has        *)
(* width * height * 4 bytes, row after row, and pixel (i, j) of the patch  *)
(* is the source pixel (x + i, y + j) written as R, G, B, A, whichever of  *)
(* the two layouts the source has.                                         *)
(***************************************************************************)
C26_RawPatchIsSourceRegion ==
    (encoded.called /\ InsideImage(encoded.rect)) =>
        LET rect == encoded.rect
        IN  /\ encoded.raw.some
            /\ Len(encoded.raw.data) = rect.width * rect.height * 4
            /\ \A i \in 0 .. rect.width - 1, j \in 0 .. rect.height - 1,
                  c \in 1 .. 4 :
                 encoded.raw.data[(j * rect.width + i) * 4 + c] =
                     SourceChannel(rect.x + i, rect.y + j, c)

\* The lower right pixel of a 2x2 BgrA32 image was extracted.
C26_Witness ==
    /\ encoded.called
    /\ image.pixel_format = PixelFormatBgrA32
    /\ image.width = 2
    /\ image.height = 2
    /\ encoded.rect = FrameRect(1, 1, 1, 1)
    /\ encoded.raw.some
    /\ encoded.codec = PatchCodecRaw
    /\ encoded.patch = encoded.raw

Bit(b, k) == (b \div (2 ^ k)) % 2

ButtonOfBit == <<"Left", "Right", "Middle", "X1", "X2">>

\* The buttons, as bits 0..4, whose bit differs between the two masks.
ChangedBits(b, p) == { k \in 0 .. 4 : Bit(b, k) # Bit(p, k) }

\* How many changed bits there are below bit k.
ChangedBelow(b, p, k) == Cardinality({ j \in ChangedBits(b, p) : j < k })

(***************************************************************************)
(* C25.  translate_mouse returns: first one MouseMove with the position;   *)
(* then, for the buttons left, right, middle, x1, x2 (bits 0..4) in this   *)
(* order, one Pressed for a bit set now and clear before, one Released for *)
(* a bit clear now and set before, and nothing for a bit that is the same; *)
(* then one vertical WheelRotations with the delta if and only if the      *)
(* delta is not zero.  Bits 5..7 of the masks have no effect.              *)
(***************************************************************************)
C25_TranslateMouseOps ==
    translated.called =>
        LET ops == translated.ops
            b == translated.buttons
            p == translated.prev_buttons
            changed == ChangedBits(b, p)
            wheel == IF translated.wheel_delta # 0 THEN 1 ELSE 0
        IN  /\ Len(ops) = 1 + Cardinality(changed) + wheel
            /\ ops[1] = [op |-> "MouseMove", x |-> translated.x,
                         y |-> translated.y]
            /\ \A k \in changed :
                 ops[2 + ChangedBelow(b, p, k)] =
                     [op |-> IF Bit(b, k) = 1 THEN "MouseButtonPressed"
                             ELSE "MouseButtonReleased",
                      button |-> ButtonOfBit[k + 1]]
            /\ wheel = 1 =>
                 ops[Len(ops)] = [op |-> "WheelRotations",
                                  is_vertical |-> TRUE,
                                  rotation_units |-> translated.wheel_delta]

\* Left released, middle pressed, x2 pressed, the wheel turned back, and
\* bits 5 and 7 changed: four operations after the move.
C25_Witness ==
    /\ translated.called
    /\ translated.prev_buttons = 33
    /\ translated.buttons = 128 + 16 + 4
    /\ translated.wheel_delta = -120
    /\ Len(translated.ops) = 5
    /\ translated.ops[2].op = "MouseButtonReleased"
    /\ translated.ops[4].button = "X2"

(***************************************************************************)
(* Helpers of the property of the host-key policy.                         *)
(***************************************************************************)
\* In this step the strict check of caller c returns.
CheckReturns(c) == hk_call[c].pc = "decide" /\ hk_call'[c] = HkIdle

\* In this step caller c, applying a pending mismatch, writes its key.
ApplyWrites(c, hp) ==
    /\ hk_call[c].pc = "upsert"
    /\ hk_call'[c].pc = "forget"
    /\ hk_call[c].host_port = hp
    /\ by_token[hk_call[c].token] # NoPending =>
           by_token[hk_call[c].token].host_port = hp
    /\ known_hosts'[hp] = hk_call[c].pending.presented

(***************************************************************************)
(* C27.  With strict checking, a check that finds no key stored for its    *)
(* host:port pins the key it presents and accepts; a check that presents a *)
(* key other than the stored one, in type or in public key, is rejected,   *)
(* registers a pending mismatch and leaves the stored key as it is; and a  *)
(* stored key changes only by apply_pending_mismatch called with a pending *)
(* token for that host:port, to the key that was presented.  This holds    *)
(* with calls running concurrently.                                        *)
(***************************************************************************)
C27_PinnedKeyChangesOnlyByApply ==
    [][/\ \A hp \in HostPorts :
            (known_hosts[hp] # NoKey /\ known_hosts'[hp] # known_hosts[hp]) =>
                \E c \in HkCallers : ApplyWrites(c, hp)
       /\ \A c \in HkCallers :
            CheckReturns(c) =>
                LET hp == hk_call[c].host_port
                    key == hk_call[c].key
                IN  /\ known_hosts[hp] = NoKey =>
                        /\ hk_ret'.res = DecisionAccept
                        /\ known_hosts'[hp] = key
                    /\ (known_hosts[hp] # NoKey /\ known_hosts[hp] # key) =>
                        /\ hk_ret'.res = DecisionReject
                        /\ by_token'[hk_ret'.token] # NoPending
                        /\ by_token'[hk_ret'.token].presented = key
                        /\ by_host_port'[hp] = hk_ret'.token
                        /\ known_hosts'[hp] = known_hosts[hp]]_vars

(***************************************************************************)
(* The session under the fairness its scheduling gives.  The connect has a *)
(* timeout of 10 s, so it ends.  select! without `biased` polls its ready  *)
(* branches in random order, so a branch that is ready again and again is  *)
(* taken.  The read branch goes on to the next output without waiting,    *)
(* and a read holds finitely many PDUs, so the outputs come to an end and  *)
(* the frame tick is reached.  Nothing makes the server send a byte during *)
(* the handshake or take the bytes written to it: connect_begin, the TLS   *)
(* upgrade, connect_finalize and the writes of the loop await it without a *)
(* timeout.                                                                *)
(***************************************************************************)
TaskFairness(id) ==
    /\ WF_vars(TcpConnect(id))
    /\ SF_vars(SocketRead(id))
    /\ SF_vars(RecvCommand(id))
    /\ WF_vars(ProcessOutput(id))
    /\ SF_vars(FrameTick(id))

SpecFair == Spec /\ \A id \in SessionIds : TaskFairness(id)

(***************************************************************************)
(* C23.  Session setup always ends: a task that is Connecting gets to      *)
(* Active or to Closed, also when the server accepts the TCP connection    *)
(* and then sends nothing.                                                 *)
(***************************************************************************)
C23_SetupEnds ==
    \A id \in SessionIds : (pc[id] \in SetupPcs) ~> (pc[id] \notin SetupPcs)

\* The commands the task has taken from its queue so far.
(***************************************************************************)
(* The main loop by itself: the session is Active and registered, a caller *)
(* sends commands and closes it, and the server takes what is written:     *)
(* a write_all of the loop that can complete does complete.  The claim     *)
(* about the select is made for such a server; without it a task that      *)
(* waits in write_all never comes back to the select at all.               *)
(***************************************************************************)
LoopInit ==
    /\ sessions = [id \in SessionIds |-> SessionHandle(0)]
    /\ pc = [id \in SessionIds |-> "select"]
    /\ cmd_q = [id \in SessionIds |-> << >>]
    /\ events = [id \in SessionIds |-> << >>]
    /\ dirty_rects = [id \in SessionIds |-> FALSE]
    /\ frame_seq = [id \in SessionIds |-> 0]
    /\ caller = [c \in Callers |-> Idle]
    /\ ret = [caller |-> 0, op |-> "", id |-> "", res |-> ""]
    /\ cmd_log = [id \in SessionIds |-> << >>]
    /\ connects = [id \in SessionIds |-> 1]
    /\ wasActive = [id \in SessionIds |-> TRUE]
    /\ ncalls = 0
    /\ FramerIdle
    /\ MergeIdle
    /\ FullIdle
    /\ MoreIdle

LoopStep(id) ==
    \/ SocketRead(id)
    \/ ProcessOutput(id)
    \/ RespWrite(id)
    \/ FrameTick(id)
    \/ RecvCommand(id)
    \/ InputWrite(id)

CommandStep(c) ==
    \/ MouseLock(c)
    \/ MouseSend(c)
    \/ KeyLock(c)
    \/ KeySend(c)
    \/ CloseRemove(c)
    \/ CloseSend(c)
    \/ CloseJoin(c)
    \/ CloseTimeout(c)

\* One thread of the front end drives the session: what the receiver of the
\* queue sees is one sequence of commands however many senders feed it.
LoopCallers == {c \in Callers : \A d \in Callers : c <= d}

LoopNext ==
    \/ \E id \in SessionIds : LoopStep(id)
    \/ \E c \in LoopCallers : CommandStep(c)

WriteFairness(id) ==
    /\ WF_vars(RespWrite(id))
    /\ WF_vars(InputWrite(id))

SpecLoop ==
    /\ LoopInit
    /\ [][LoopNext]_vars
    /\ \A id \in SessionIds : TaskFairness(id) /\ WriteFairness(id)

Received(id) == Len(cmd_log[id]) - Len(cmd_q[id])

C35_ControllerInRange ==
    tick_width # 0 =>
        /\ frame_interval_idx \in 0 .. Len(FRAME_INTERVAL_LEVELS) - 1
        /\ Len(FRAME_INTERVAL_LEVELS) = 4
        /\ IntervalMs \in {33, 40, 50, 66}
        /\ jpeg_quality \in JPEG_QUALITY_MIN .. JPEG_QUALITY_MAX
        /\ JPEG_QUALITY_MIN = 75 /\ JPEG_QUALITY_MAX = 92
        /\ over_budget_streak < 3
        /\ under_budget_streak < 20
        /\ over_budget_streak = 0 \/ under_budget_streak = 0
        /\ ~tick.called =>
             /\ frame_interval_idx = 0
             /\ IntervalMs = 33
             /\ jpeg_quality = 92
             /\ over_budget_streak = 0
             /\ under_budget_streak = 0

\* A tick has left the controller at the coarsest level and the lowest
\* quality, one under-budget tick short of stepping finer.
C35_Witness ==
    /\ tick.called
    /\ frame_interval_idx = 3
    /\ jpeg_quality = 75
    /\ under_budget_streak = 19

(***************************************************************************)
(* C31.  A patch encoded at the finest level (index 0) is asked for as     *)
(* Raw, a patch encoded at a coarser level has the codec Jpeg, so a Raw    *)
(* patch is pushed at the finest level only; and the codec a patch is      *)
(* tagged with is the one that made its data: the data of a Raw patch are  *)
(* the RGBA bytes of the rect, those of a Jpeg patch a JPEG stream.        *)
(***************************************************************************)
C31_CodecFollowsLevel ==
    encoded.called =>
        /\ encoded.frame_interval_idx = 0 => encoded.default_codec = PatchCodecRaw
        /\ (encoded.frame_interval_idx > 0 /\ encoded.codec # NoCodec) =>
               encoded.codec = PatchCodecJpeg
        /\ encoded.codec = PatchCodecRaw => encoded.frame_interval_idx = 0
        /\ encoded.codec = NoCodec <=> ~encoded.patch.some
        /\ encoded.codec = PatchCodecRaw =>
               /\ encoded.patch = encoded.raw
               /\ Len(encoded.patch.data) =
                      encoded.rect.width * encoded.rect.height * 4
        /\ encoded.codec = PatchCodecJpeg =>
               /\ encoded.patch.data[1] = "JFIF"
               /\ Len(encoded.patch.data[3]) =
                      encoded.rect.width * encoded.rect.height * 3

\* A Jpeg patch was pushed at the 50 ms level.
C31_Witness ==
    /\ encoded.called
    /\ FRAME_INTERVAL_LEVELS[encoded.frame_interval_idx + 1] = 50
    /\ encoded.codec = PatchCodecJpeg
    /\ encoded.patch.some
    /\ encoded.rect.width = 2

\* The rects the tick of this step went to encode: the full desktop when
\* it promoted the frame to a keyframe, else the merged dirty rects.
TriedRects ==
    IF tick'.is_keyframe THEN <<FrameRect(0, 0, tick_width, tick_height)>>
    ELSE merge_rects(pending_rects)

(***************************************************************************)
(* C32.  A tick that has rects to encode and makes no patch sends no Frame *)
(* event, leaves the sequence number and the keyframe timer as they were,  *)
(* and leaves as the dirty set exactly the rects it went to encode.        *)
(***************************************************************************)
C32_EmptyTickKeepsRects ==
    [][(TickTaken /\ tick'.patches = << >>) =>
         /\ pending_rects # << >>
         /\ ~tick'.sent
         /\ tick'.seq_advance = 0
         /\ keyframe_elapsed' = keyframe_elapsed
         /\ pending_rects' = TriedRects
         /\ pending_rects' # << >>]_vars

\* A tick promoted to a keyframe made no patch: the full desktop is what
\* stays dirty, and the timer still stands at 2000 ms.
C32_Witness ==
    /\ tick.called
    /\ tick.patches = << >>
    /\ tick.is_keyframe
    /\ ~tick.sent
    /\ pending_rects = <<FrameRect(0, 0, tick_width, tick_height)>>
    /\ keyframe_elapsed = 2000

(***************************************************************************)
(* Helpers of the properties of the dirty-rect set.                        *)
(***************************************************************************)
\* The last step was a graphics update, or a frame tick.
ClipUpdated == clip.called /\ clip.op = "update"
ClipTicked == clip.called /\ clip.op = "tick"

\* An inclusive rectangle without area: an edge lies before its opposite.
ZeroArea(rect) == rect.right < rect.left \/ rect.bottom < rect.top

\* The rect lies entirely outside the desktop.
OutsideDesktop(rect) == rect.left >= clip_width \/ rect.top >= clip_height

\* width, height >= 1 and fully inside the desktop
InsideDesktop(r) ==
    /\ r.width >= 1
    /\ r.height >= 1
    /\ r.x + r.width <= clip_width
    /\ r.y + r.height <= clip_height

AllInside(rs) == \A i \in 1 .. Len(rs) : InsideDesktop(rs[i])

\* right() and bottom() are what they are without the wrap of a u16.
EdgesFit(r) ==
    /\ right(r) = r.x + r.width - 1
    /\ bottom(r) = r.y + r.height - 1
    /\ r.x + r.width <= U16Max

RECURSIVE SummedArea(_)
\* The areas of the rects added up, without the wrap of a u32.
SummedArea(rs) ==
    IF rs = << >> THEN Wide(0, 0)
    ELSE WideAdd(area(Head(rs)), SummedArea(Tail(rs)))

(***************************************************************************)
(* C33.  A graphics-update rectangle that has no area, or that lies        *)
(* entirely outside the desktop (its left edge is at or beyond the desktop *)
(* width, or its top edge at or beyond the desktop height), is discarded:  *)
(* rect_from_inclusive returns None for it.                                *)
(***************************************************************************)
C33_OutsideRectDiscarded ==
    (ClipUpdated /\ (ZeroArea(clip.rect) \/ OutsideDesktop(clip.rect))) =>
        ~clip.out.some

(***************************************************************************)
(* C34.  Every rect of the dirty set and every patch of a frame is at      *)
(* least 1x1 and lies fully inside the desktop, after the push, the merge, *)
(* the promotion to a keyframe and the re-queueing alike; so right() and   *)
(* bottom() of these rects fit 16 bits, and the areas of a merged set add  *)
(* up to no more than the area of the desktop.                             *)
(***************************************************************************)
C34_RectsInsideDesktop ==
    /\ AllInside(clip_dirty)
    /\ \A i \in 1 .. Len(clip_dirty) : EdgesFit(clip_dirty[i])
    /\ ClipUpdated => (clip.out.some => InsideDesktop(clip.out.rect))
    /\ ClipTicked =>
         /\ AllInside(clip.merged)
         /\ AllInside(clip.patches)
         /\ \A i \in 1 .. Len(clip.merged) : EdgesFit(clip.merged[i])
         /\ total_dirty_area(clip.merged) = SummedArea(clip.merged)
         /\ WideGeq(MulU16(clip_width, clip_height), SummedArea(clip.merged))

\* On the 65535x65535 desktop a tick had the full desktop as its merged set
\* and made no patch, so the merged rect is back in the dirty set.
C34_Witness ==
    /\ ClipTicked
    /\ clip_width = U16Max
    /\ clip.merged = <<FrameRect(0, 0, U16Max, U16Max)>>
    /\ clip.patches = << >>
    /\ clip_dirty = clip.merged

\* The outputs of the read branch that reached the transport, in the order
\* of the transport.
RECURSIVE ReadOutputsOn(_)
ReadOutputsOn(wire) ==
    IF wire = << >> THEN << >>
    ELSE IF Head(wire).output.arm = "read"
         THEN <<Head(wire).output>> \o ReadOutputsOn(Tail(wire))
         ELSE ReadOutputsOn(Tail(wire))

\* The ResponseFrames the read branch still has to write.
ReadOutputsLeft ==
    SelectSeq(out_outputs, LAMBDA o : IsResponseFrame(o) /\ o.arm = "read")

IsPrefix(s, t) == Len(s) <= Len(t) /\ SubSeq(t, 1, Len(s)) = s

\* C36: while received PDUs are processed, every ResponseFrame is written in
\* full before the next output or the next PDU is processed and before a
\* queued command is serviced: the responses of the read branch are on the
\* transport in the order the adapter made them, none is passed over while
\* the loop runs, a command is serviced and its bytes are written only when
\* no response of a PDU is outstanding, and only the last thing on the
\* transport can be a part of an output, after which the task has ended.
C36_ResponsesWrittenInOrder ==
    /\ IsPrefix(ReadOutputsOn(out_wire), out_made)
    /\ out_pc # "done" => ReadOutputsOn(out_wire) \o ReadOutputsLeft = out_made
    /\ out_pc \in {"select", "cmd_for", "cmd_write"} =>
         /\ ReadOutputsOn(out_wire) = out_made
         /\ \A j \in 1 .. Len(out_outputs) : out_outputs[j].arm = "command"
    /\ out_pc = "write" =>
         /\ out_outputs # << >>
         /\ IsResponseFrame(Head(out_outputs))
         /\ Head(out_outputs).arm = "read"
    /\ \A i \in 1 .. Len(out_wire) :
         ~out_wire[i].full => i = Len(out_wire) /\ out_pc = "done"

\* Two responses of one PDU are on the transport in the order they were made,
\* and the response of a command, serviced afterwards, follows them.
C36_Witness ==
    /\ Len(out_wire) = 3
    /\ out_wire[1] = Written([kind |-> "resp", arm |-> "read", of |-> 1, at |-> 1])
    /\ out_wire[2] = Written([kind |-> "resp", arm |-> "read", of |-> 1, at |-> 2])
    /\ out_wire[3].output.arm = "command"
    /\ out_made = <<out_wire[1].output, out_wire[2].output>>

\* The loop is about to handle a Terminate or a DeactivateAll.
AtTerminate ==
    /\ out_pc = "for"
    /\ out_outputs # << >>
    /\ Head(out_outputs).kind \in {"term", "deact"}

TerminateReason ==
    IF Head(out_outputs).kind = "term" THEN ReasonTerminate ELSE ReasonDeactivate

\* C37: on Terminate or DeactivateAll the task sends Exit with the reason
\* and stops at once: the step writes nothing and handles nothing else, and
\* afterwards the outputs and the PDUs that were left stay unprocessed,
\* nothing more is written, no queued command is handled and the pending
\* dirty rects give no Frame.
C37_TerminateStopsAtOnce ==
    [][/\ AtTerminate =>
            \/ /\ out_cmd_q' # out_cmd_q
               /\ UNCHANGED <<out_pc, out_pdus, out_npdus, out_outputs, out_nout,
                              out_made, out_wire, out_ncmds, out_events, out_dirty>>
            \/ /\ out_pc' = "done"
               /\ out_events' = Append(out_events, ExitEvent(TerminateReason))
               /\ UNCHANGED <<out_pdus, out_npdus, out_outputs, out_nout, out_made,
                              out_wire, out_cmd_q, out_ncmds, out_dirty>>
       /\ out_pc = "done" => UNCHANGED outVars]_vars

\* The task has ended on a Terminate while another output of the PDU, a
\* complete PDU in the buffer, dirty rects and a queued command were left.
C37_Witness ==
    /\ out_pc = "done"
    /\ out_events # << >>
    /\ out_events[Len(out_events)] = ExitEvent(ReasonTerminate)
    /\ Len(out_outputs) >= 2
    /\ Head(out_outputs).kind = "term"
    /\ out_pdus > 0
    /\ out_dirty
    /\ out_cmd_q # << >>
    /\ out_wire = << >>

\* The bytes of a list of handed-on bytes, as they were read.
AsRead(seen) == [j \in 1 .. Len(seen) |-> HsByte(seen[j].byte, seen[j].at)]

\* What the reader in charge holds and has not handed on.
HsBuffered == IF hs_stage = "active" THEN hs_buf ELSE hs_framed.buf

\* C38: no byte is lost or reordered across the two hand-overs of the
\* transport: the bytes handed on so far, followed by the bytes the reader
\* in charge holds, are the bytes read from the transport in the order they
\* were read; so the bytes buffered at the swap for the TLS stream are the
\* first the reader after the swap sees, and the bytes left in the framed
\* reader are the first of the receive buffer of the main loop.
C38_NoByteLostAtHandover ==
    /\ AsRead(hs_seen) \o HsBuffered = hs_read
    /\ hs_stage # "active" => hs_buf = << >>
    /\ hs_stage = "begin" => hs_framed.stream = "tcp"
    /\ hs_stage = "finalize" => hs_framed.stream = "tls"

\* A byte read before the swap was handed on by the reader after it, and the
\* receive buffer of the main loop holds a byte left by the framed reader
\* ahead of a byte read by the loop.
C38_Witness ==
    /\ hs_stage = "active"
    /\ \E j \in 1 .. Len(hs_seen) :
         hs_seen[j].at = "begin" /\ hs_seen[j].by = "finalize"
    /\ Len(hs_buf) = 2
    /\ hs_buf[1].at = "finalize"
    /\ hs_buf[2].at = "active"

\* C39: a Frame is sent only in a turn of the read branch, with dirty rects
\* at hand and at least the frame interval in force gone since
\* last_frame_time; a command or the passing of time alone sends none; and
\* a Frame is never sent sooner after the Frame before it than the interval
\* in force at the later one.
C39_FramesKeepTheInterval ==
    [][/\ pace_last'.frame =>
            /\ pace_last'.step = "read"
            /\ pace_last'.dirty
            /\ pace_since_tick >= FRAME_INTERVAL_LEVELS[pace_idx + 1]
            /\ pace_since_frame # NoFrame =>
                 pace_since_frame >= FRAME_INTERVAL_LEVELS[pace_idx + 1]
       /\ pace_since_frame' # pace_since_frame /\ pace_since_frame' = 0 =>
            pace_last'.frame
       /\ pace_since_tick' < pace_since_tick => pace_last'.step = "read"]_vars

\* A second Frame was sent just as the interval of the third level had
\* passed since the first.
C39_Witness ==
    /\ pace_last.frame
    /\ pace_last.interval = FRAME_INTERVAL_LEVELS[3]
    /\ pace_last.gap = pace_last.interval
    /\ pace_last.elapsed = pace_last.interval

\* The Exit event of a setup that found the server not asking for TLS.
RefusedPlaintext(id) ==
    \E j \in 1 .. Len(events[id]) : events[id][j] = ExitEvent(ReasonNoTls)

\* C40: a session never gets to the active stage on an unencrypted
\* transport: connect_finalize is entered only from a TLS upgrade that went
\* through, the upgrade only from connect_begin, the active loop only from
\* connect_finalize; and where the server did not ask for the upgrade the
\* setup ends with an Exit event, the session Closed and never Active.
C40_ActiveOnlyOverTls ==
    [][\A id \in SessionIds :
         /\ (pc'[id] = "finalize" /\ pc[id] # "finalize") => pc[id] = "tls"
         /\ (pc'[id] = "tls" /\ pc[id] # "tls") => pc[id] = "begin"
         /\ (Lifecycle(id)' = "Active" /\ Lifecycle(id) # "Active") =>
              pc[id] = "finalize"
         /\ wasActive'[id] => (wasActive[id] \/ pc[id] = "finalize")
         /\ RefusedPlaintext(id)' =>
              /\ Lifecycle(id)' = "Closed"
              /\ ~wasActive'[id]
              /\ ~RefusedPlaintext(id) => pc[id] = "begin"]_vars

\* A setup ended because the server did not ask for the TLS upgrade.
C40_Witness ==
    \E id \in SessionIds :
      /\ events[id] = <<ExitEvent(ReasonNoTls)>>
      /\ Lifecycle(id) = "Closed"
      /\ ~wasActive[id]

=============================================================================
